---- MODULE Spec2Model ----
(***************************************************************************)
(* Thought Clusters (src/app.js): the numeric core.                        *)
(*   euclideanDistance, kmeans (K-means++ seeding, Assign/Update loop),    *)
(*   umap (pairwise distances, k-nearest-neighbour lists, force passes).   *)
(*                                                                         *)
(* JavaScript numbers are modelled exactly: a finite number is a rational  *)
(* in lowest terms, Math.sqrt of a non-square is kept as a surd (the root  *)
(* of its rational radicand), and NaN, Infinity and undefined are values   *)
(* of their own.  Arrays are objects: an array variable holds an address   *)
(* into a heap, so that a copy ([...x]) and an alias (x) differ.           *)
(***************************************************************************)
EXTENDS Integers, Sequences, FiniteSets, TLC

(***************************************************************************)
(* Bounds of the model.                                                    *)
(***************************************************************************)
\* largest number of samples N in an embedding set
MaxN == 3
\* largest maxIterations argument handed to kmeans
MaxIt == 2
\* Math.random() returns u / RandRes for u in 0 .. RandRes-1
RandRes == 3
\* largest vector length handed to euclideanDistance on its own
MaxLen == 2
\* largest coordinate of a vector handed to euclideanDistance on its own
MaxCoord == 1
\* largest number of messages handed to labelClusters
MaxMsgs == 2
\* largest number of user messages in an uploaded file beyond the least
\* number processConversations accepts
MaxExtra == 1
\* largest number of user messages in an uploaded file beyond
\* CONFIG.maxMessages
MaxOver == 3

(***************************************************************************)
(* Evaluation order.  JavaScript evaluates an argument once, before the    *)
(* call.  Bind and Bind2 do the same here: the value is computed once and  *)
(* the body sees the value.                                                *)
(***************************************************************************)
Bind(v, Op(_)) == CHOOSE r \in { Op(x) : x \in {v} } : TRUE
Bind2(v, w, Op(_, _)) == CHOOSE r \in { Op(x, y) : x \in {v}, y \in {w} } : TRUE
\* an array is built once: every element is computed when the array is
Built(array) == array \o <<>>

(***************************************************************************)
(* JavaScript number values.                                               *)
(*   kind "num"  : the rational n / d, in lowest terms, d > 0              *)
(*   kind "sqrt" : the irrational square root of the rational n / d > 0    *)
(*   kind "nan", "inf", "undefined" : NaN, +Infinity, undefined            *)
(***************************************************************************)
Abs(x) == IF x < 0 THEN -x ELSE x

RECURSIVE GCD(_, _)
GCD(x, y) == IF y = 0 THEN x ELSE Bind(x % y, LAMBDA m : GCD(y, m))

\* the rational n / d in lowest terms
NumOf(n, d) ==
    IF d = 1 THEN [kind |-> "num", n |-> n, d |-> 1]
    ELSE LET g == GCD(Abs(n), Abs(d))
             s == IF d < 0 THEN -1 ELSE 1
         IN  [kind |-> "num", n |-> (s * n) \div g, d |-> (s * d) \div g]
Num(n, d) == Bind2(n, d, NumOf)

NumInt(x) == [kind |-> "num", n |-> x, d |-> 1]
NaN == [kind |-> "nan", n |-> 0, d |-> 1]
Infinity == [kind |-> "inf", n |-> 0, d |-> 1]
Undefined == [kind |-> "undefined", n |-> 0, d |-> 1]

IsNaN(x) == x.kind = "nan" \/ x.kind = "undefined"

\* v[i] of a JavaScript array: undefined past the end (i is 1-based here)
At(v, i) == IF i \in 1..Len(v) THEN v[i] ELSE Undefined

\* floor of the square root of a natural number
RECURSIVE ISqrtFrom(_, _)
ISqrtFrom(x, r) == IF (r + 1) * (r + 1) > x THEN r ELSE ISqrtFrom(x, r + 1)
ISqrt(x) == ISqrtFrom(x, 0)

\* a surd rounded down to three decimals, where a sum needs its value
Approx(x) ==
    IF x.kind = "sqrt"
    THEN Num(ISqrt(x.n * x.d * 1000000), x.d * 1000)
    ELSE x

\* x + y
Plus(x, y) ==
    IF IsNaN(x) \/ IsNaN(y) THEN NaN
    ELSE IF x.kind = "inf" \/ y.kind = "inf" THEN Infinity
    ELSE LET p == Approx(x)
             q == Approx(y)
         IN  IF p.d = q.d THEN Num(p.n + q.n, p.d)
             ELSE Num(p.n * q.d + q.n * p.d, p.d * q.d)
NumAdd(x, y) == Bind2(x, y, Plus)

\* x - y
Minus(x, y) ==
    IF IsNaN(x) \/ IsNaN(y) THEN NaN
    ELSE IF x.kind = "inf" /\ y.kind = "inf" THEN NaN
    ELSE IF x.kind = "inf" THEN Infinity
    ELSE LET p == Approx(x)
             q == Approx(y)
         IN  IF p.d = q.d THEN Num(p.n - q.n, p.d)
             ELSE Num(p.n * q.d - q.n * p.d, p.d * q.d)
NumSub(x, y) == Bind2(x, y, Minus)

\* x * y for x, y >= 0
Times(x, y) ==
    IF IsNaN(x) \/ IsNaN(y) THEN NaN
    ELSE IF x.kind = "inf" \/ y.kind = "inf" THEN Infinity
    ELSE LET p == Approx(x)
             q == Approx(y)
         IN  Num(p.n * q.n, p.d * q.d)
NumMul(x, y) == Bind2(x, y, Times)

\* x / c for a positive integer c
Over(x, c) ==
    IF IsNaN(x) THEN NaN
    ELSE IF x.kind = "inf" THEN Infinity
    ELSE LET p == Approx(x) IN Num(p.n, p.d * c)
NumDivInt(x, c) == Bind2(x, c, Over)

\* Math.pow(x, 2)
Squared(x) ==
    IF IsNaN(x) THEN NaN
    ELSE IF x.kind = "inf" THEN Infinity
    ELSE IF x.kind = "sqrt" THEN [kind |-> "num", n |-> x.n, d |-> x.d]
    ELSE [kind |-> "num", n |-> x.n * x.n, d |-> x.d * x.d]
MathPow2(x) == Bind(x, Squared)

\* Math.sqrt(x): exact where the root is rational, a surd otherwise
Root(x) ==
    IF IsNaN(x) THEN NaN
    ELSE IF x.kind = "inf" THEN Infinity
    ELSE IF x.n < 0 THEN NaN
    ELSE LET rn == ISqrt(x.n)
             rd == ISqrt(x.d)
         IN  IF rn * rn = x.n /\ rd * rd = x.d
             THEN [kind |-> "num", n |-> rn, d |-> rd]
             ELSE [kind |-> "sqrt", n |-> x.n, d |-> x.d]
MathSqrt(x) == Bind(x, Root)

IsNeg(x) == x.kind = "num" /\ x.n < 0

\* p < q for two numbers that are not negative: their squares compared
LessSq(x, y) ==
    IF x.kind = "num" /\ y.kind = "num"
    THEN x.n * y.d < y.n * x.d
    ELSE LET p == Squared(x)
             q == Squared(y)
         IN  p.n * q.d < q.n * p.d

\* x < y of JavaScript: false as soon as one side is NaN
Less(x, y) ==
    IF IsNaN(x) \/ IsNaN(y) THEN FALSE
    ELSE IF x.kind = "inf" THEN FALSE
    ELSE IF y.kind = "inf" THEN TRUE
    ELSE IF IsNeg(x) THEN (IF IsNeg(y) THEN x.n * y.d < y.n * x.d ELSE TRUE)
    ELSE IF IsNeg(y) THEN FALSE
    ELSE LessSq(x, y)
NumLess(x, y) == Bind2(x, y, Less)

\* x <= y of JavaScript
Leq(x, y) ==
    IF IsNaN(x) \/ IsNaN(y) THEN FALSE
    ELSE ~Less(y, x)
NumLeq(x, y) == Bind2(x, y, Leq)

(***************************************************************************)
(* euclideanDistance(a, b): sum += Math.pow(a[i] - b[i], 2) for every      *)
(* index of a, then Math.sqrt(sum).  The loop runs over a.length whatever  *)
(* the length of b is.                                                     *)
(***************************************************************************)
DiffPowNoSquare(x, y) == NumSub(x, y)

DiffPow(x, y) == MathPow2(NumSub(x, y))

RECURSIVE SumSqFrom(_, _, _, _)
SumSqFrom(a, b, i, sum) ==
    IF i > Len(a) THEN sum
    ELSE SumSqFrom(a, b, i + 1, NumAdd(sum, DiffPow(At(a, i), At(b, i))))

euclideanDistance(a, b) == MathSqrt(SumSqFrom(a, b, 1, NumInt(0)))


(***************************************************************************)
(* State.                                                                  *)
(***************************************************************************)
VARIABLES
    \* euclideanDistance called on its own: its arguments and its outcome
    vecA, vecB, distOut,
    \* the caller's arguments: the embedding set (a sequence of vectors), the
    \* requested cluster count, the iteration cap, the neighbour count
    embInput, k, maxIterations, nNeighbors,
    \* the kmeans runs in progress (run id -> the run's locals and heap) and,
    \* with two runs, the random values run 2 is still to receive
    runs, km, tape,
    \* the umap run in progress: its locals and heap
    um,
    \* the calls of labelClusters: the arguments, the locals, the results
    lc,
    \* the page: CONFIG, the screens, the processing runs in progress
    app

vars == <<vecA, vecB, distOut, embInput, k, maxIterations, nNeighbors,
          runs, km, tape, um, lc, app>>

distVars == <<vecA, vecB, distOut>>
argVars == <<embInput, k, maxIterations, nNeighbors, runs>>

(***************************************************************************)
(* Inputs.  The embeddings are drawn from the corners of a 3-4-5 triangle   *)
(* so that every distance between two of them (3, 4 or 5) is rational and  *)
(* the weighted draw of the seeding is computed exactly.                   *)
(***************************************************************************)
Points == { <<NumInt(0), NumInt(0)>>, <<NumInt(3), NumInt(0)>>,
            <<NumInt(0), NumInt(4)>> }

EmbeddingSets == UNION { [1..n -> Points] : n \in 0..MaxN }

Draws == 0..(RandRes - 1)

\* Math.random(): u / RandRes, in [0, 1)
MathRandom(u) == Num(u, RandRes)

\* Math.floor(Math.random() * n)
RandomIndex(u, n) == (u * n) \div RandRes

(***************************************************************************)
(* kmeans(embeddings, k, maxIterations), lines 569-617.                    *)
(* A run's record:                                                         *)
(*   heap        address -> array; addresses 1..N are embeddings[0..N-1]   *)
(*   centroids   the addresses of the centroid arrays, slot 0 first        *)
(*   usedIndices the sample indices (0-based) already chosen as seeds      *)
(*   labels, newLabels  slot per sample (slots are 0-based)                *)
(*   iter        the loop counter; passes counts the Assign passes made    *)
(*   pc          "entry" | "seed" | "loop" | "update" | "done"             *)
(*   outcome     "none" | "returned" | "threw"; result is the return value *)
(***************************************************************************)
N == Len(embInput)

NewRun ==
    [ pc |-> "entry", heap |-> embInput, centroids |-> <<>>,
      usedIndices |-> {}, labels |-> <<>>, newLabels |-> <<>>,
      iter |-> 0, passes |-> 0, converged |-> FALSE, draws |-> 0,
      steps |-> 0, outcome |-> "none", result |-> <<>> ]

\* [...embeddings[i]]: the address the new centroid array gets.  A spread
\* allocates a fresh array; src is the address copied from.
SpreadAlias(src, fresh) == src

Spread(src, fresh) == fresh

\* centroids.push([...embeddings[idx]]); usedIndices.add(idx)   (idx 0-based)
PushCentroid(run, idx) ==
    LET fresh == Len(run.heap) + 1
    IN  [run EXCEPT !.heap = Append(run.heap, run.heap[idx + 1]),
                    !.centroids = Append(run.centroids, Spread(idx + 1, fresh)),
                    !.usedIndices = run.usedIndices \cup {idx}]

\* Math.min(...xs) over a non-empty list: NaN if one is, else the least
RECURSIVE MathMinFrom(_, _, _)
MathMinFrom(xs, i, m) ==
    IF i > Len(xs) THEN m
    ELSE IF IsNaN(xs[i]) \/ IsNaN(m) THEN NaN
    ELSE Bind(IF NumLess(xs[i], m) THEN xs[i] ELSE m,
              LAMBDA least : MathMinFrom(xs, i + 1, least))
MathMin(xs) == Bind(xs, LAMBDA list : MathMinFrom(list, 1, Infinity))

\* lines 581-584: the weight of every sample, 0 for a used one
WeightsOf(run) ==
    [i \in 1..Len(embInput) |->
        IF (i - 1) \in run.usedIndices THEN NumInt(0)
        ELSE MathMin([c \in 1..Len(run.centroids) |->
                 euclideanDistance(run.heap[i], run.heap[run.centroids[c]])])]
SeedDistances(run) == Bind(run, WeightsOf)

RECURSIVE SumFrom(_, _, _)
SumFrom(xs, i, acc) ==
    IF i > Len(xs) THEN acc ELSE SumFrom(xs, i + 1, NumAdd(acc, xs[i]))

\* lines 587-590: r -= distances[i]; the first i with r <= 0 (0-based),
\* or -1 when the scan ends without one
SeedHit(r2) == NumLeq(r2, NumInt(0))

RECURSIVE SeedScan(_, _, _)
SeedScan(distances, i, r) ==
    IF i > Len(distances) THEN -1
    ELSE Bind(NumSub(r, distances[i]),
              LAMBDA r2 : IF SeedHit(r2) THEN i - 1
                          ELSE SeedScan(distances, i + 1, r2))

SeedPick(distances, totalDist, u) ==
    SeedScan(distances, 1, NumMul(MathRandom(u), totalDist))

\* line 598: if (dist < minDist)
CloserOrEqual(dist, minDist) == NumLeq(dist, minDist)

Closer(dist, minDist) == NumLess(dist, minDist)

\* lines 596-601: the slot of the nearest centroid, the first of equals
RECURSIVE NearestFrom(_, _, _, _, _)
NearestFrom(run, emb, c, minDist, minIdx) ==
    IF c >= k THEN minIdx
    ELSE Bind(euclideanDistance(emb, run.heap[run.centroids[c + 1]]),
              LAMBDA dist :
                  IF Closer(dist, minDist)
                  THEN NearestFrom(run, emb, c + 1, dist, c)
                  ELSE NearestFrom(run, emb, c + 1, minDist, minIdx))

NearestOneBased(run, emb) == NearestFrom(run, emb, 0, Infinity, 0) + 1

Nearest(run, emb) == NearestFrom(run, emb, 0, Infinity, 0)

\* lines 595-602: newLabels = embeddings.map(...)
AssignOf(run) == [i \in 1..Len(embInput) |-> Nearest(run, run.heap[i])]
Assign(run) == Bind(run, AssignOf)

\* line 604: newLabels.every((l, i) => l === labels[i])
ConvergedSome(newLabels, labels) ==
    \E i \in 1..Len(newLabels) : newLabels[i] = labels[i]

Converged(newLabels, labels) ==
    \A i \in 1..Len(newLabels) : newLabels[i] = labels[i]

\* line 608: embeddings.filter((_, i) => labels[i] === c), as sample numbers
ClusterPoints(run, c) == { i \in 1..Len(embInput) : run.labels[i] = c }

\* clusterPoints.reduce((sum, p) => sum + p[d], 0), in sample order
RECURSIVE SumCoordFrom(_, _, _, _, _)
SumCoordFrom(heap, members, d, i, sum) ==
    IF i > Len(heap) THEN sum
    ELSE IF i \in members
         THEN SumCoordFrom(heap, members, d, i + 1, NumAdd(sum, heap[i][d]))
         ELSE SumCoordFrom(heap, members, d, i + 1, sum)
SumCoord(heap, members, d) == SumCoordFrom(heap, members, d, 1, NumInt(0))

\* the mean, coordinate by coordinate, written into the centroid array in
\* place (lines 610-612); the array keeps its length
MeanInto(heap, addr, members) ==
    [heap EXCEPT ![addr] =
        [d \in 1..Len(heap[1]) |->
            NumDivInt(SumCoord(heap, members, d), Cardinality(members))]]

\* lines 607-613 for slot c: an empty slot is skipped
UpdateSlotNoSkip(run, c) ==
    LET members == ClusterPoints(run, c)
    IN  IF members = {}
        THEN [run EXCEPT !.heap[run.centroids[c + 1]] =
                 [d \in 1..Len(run.heap[1]) |-> NaN]]
        ELSE [run EXCEPT !.heap = MeanInto(run.heap, run.centroids[c + 1], members)]

UpdateSlot(run, c) ==
    LET members == ClusterPoints(run, c)
    IN  IF members = {} THEN run
        ELSE [run EXCEPT !.heap = MeanInto(run.heap, run.centroids[c + 1], members)]

RECURSIVE UpdateFrom(_, _)
UpdateFrom(run, c) ==
    IF c >= k THEN run
    ELSE Bind(UpdateSlot(run, c), LAMBDA next : UpdateFrom(next, c + 1))

Update(run) == UpdateFrom(run, 0)

(***************************************************************************)
(* The steps of a kmeans run r.  With two runs in progress the runs take   *)
(* turns, run 1 first, and the j-th call of Math.random by run 2 returns   *)
(* what the j-th call by run 1 returned (tape holds the values run 1 has   *)
(* drawn and run 2 has not yet): the same seed.                            *)
(***************************************************************************)
Turn(r) ==
    IF runs = {r} THEN TRUE
    ELSE IF r = 1 THEN (km[1].steps = km[2].steps \/ km[2].pc = "done")
    ELSE (km[2].steps < km[1].steps \/ km[1].pc = "done")

DrawChoices(r) ==
    IF r = 2 /\ tape # <<>> THEN {Head(tape)} ELSE Draws

Drawn(r, u) ==
    IF runs = {r} THEN tape
    ELSE IF r = 1 THEN Append(tape, u)
    ELSE IF tape # <<>> THEN Tail(tape)
    ELSE tape

Stepped(run) == [run EXCEPT !.steps = run.steps + 1]

\* lines 570-578: n, dim, the first centroid.  embeddings[0].length throws a
\* TypeError when the set is empty.
KmEntry(r) ==
    /\ km[r].pc = "entry"
    /\ IF N = 0
       THEN /\ km' = [km EXCEPT ![r] = Stepped([km[r] EXCEPT
                         !.pc = "done", !.outcome = "threw"])]
            /\ tape' = tape
       ELSE \E u \in DrawChoices(r) :
            \E pushed \in {PushCentroid(km[r], RandomIndex(u, N))} :
            /\ km' = [km EXCEPT ![r] = Stepped([pushed EXCEPT
                         !.pc = "seed", !.draws = km[r].draws + 1])]
            /\ tape' = Drawn(r, u)
    /\ UNCHANGED <<lc, app, distVars, argVars, um>>

\* lines 580-591: one turn of the while loop
KmSeed(r) ==
    /\ km[r].pc = "seed"
    /\ Len(km[r].centroids) < k
    /\ \E distances \in {SeedDistances(km[r])} :
       \E totalDist \in {SumFrom(distances, 1, NumInt(0))} :
       \E u \in DrawChoices(r) :
       \E i \in {SeedPick(distances, totalDist, u)} :
       \E pushed \in {IF i >= 0 THEN PushCentroid(km[r], i) ELSE km[r]} :
            /\ km' = [km EXCEPT ![r] = Stepped([pushed EXCEPT
                         !.draws = km[r].draws + 1])]
            /\ tape' = Drawn(r, u)
    /\ UNCHANGED <<lc, app, distVars, argVars, um>>

\* line 593: let labels = new Array(n).fill(0), and the loop starts
KmSeeded(r) ==
    /\ km[r].pc = "seed"
    /\ Len(km[r].centroids) >= k
    /\ km' = [km EXCEPT ![r] = Stepped([km[r] EXCEPT
                  !.pc = "loop", !.iter = 0,
                  !.labels = [i \in 1..N |-> 0]])]
    /\ UNCHANGED <<lc, app, distVars, argVars, tape, um>>

\* line 594: iter < maxIterations
LoopGuardInclusive(run) == run.iter <= maxIterations

LoopGuard(run) == run.iter < maxIterations

\* lines 595-605: the Assign pass with the labels it computed, the
\* convergence test, and the break or the assignment to labels
KmAssignWith(r, newLabels) ==
    /\ km[r].pc = "loop"
    /\ LoopGuard(km[r])
    /\ IF Converged(newLabels, km[r].labels)
       THEN km' = [km EXCEPT ![r] = Stepped([km[r] EXCEPT
                       !.newLabels = newLabels, !.passes = km[r].passes + 1,
                       !.converged = TRUE, !.pc = "done",
                       !.outcome = "returned", !.result = km[r].labels])]
       ELSE km' = [km EXCEPT ![r] = Stepped([km[r] EXCEPT
                       !.newLabels = newLabels, !.passes = km[r].passes + 1,
                       !.labels = newLabels, !.pc = "update"])]
    /\ UNCHANGED <<lc, app, distVars, argVars, tape, um>>

\* the slots no centroid is strictly nearer than
NearestSlots(run, emb) ==
    { c \in 0..(k - 1) :
        \A c2 \in 0..(k - 1) :
            ~NumLess(euclideanDistance(emb, run.heap[run.centroids[c2 + 1]]),
                     euclideanDistance(emb, run.heap[run.centroids[c + 1]])) }

KmAssignRandomTies(r) ==
    /\ km[r].pc = "loop"
    /\ \E nl \in [1..N -> 0..(k - 1)] :
        /\ \A i \in 1..N : nl[i] \in NearestSlots(km[r], km[r].heap[i])
        /\ KmAssignWith(r, nl)

KmAssign(r) ==
    /\ km[r].pc = "loop"
    /\ \E newLabels \in {Assign(km[r])} : KmAssignWith(r, newLabels)

\* lines 607-614: the Update step, and iter++
KmUpdate(r) ==
    /\ km[r].pc = "update"
    /\ \E updated \in {Update(km[r])} :
         km' = [km EXCEPT ![r] = Stepped([updated EXCEPT
                   !.iter = km[r].iter + 1, !.pc = "loop"])]
    /\ UNCHANGED <<lc, app, distVars, argVars, tape, um>>

\* line 616: return labels, the cap reached
KmReturn(r) ==
    /\ km[r].pc = "loop"
    /\ ~LoopGuard(km[r])
    /\ km' = [km EXCEPT ![r] = Stepped([km[r] EXCEPT
                  !.pc = "done", !.outcome = "returned",
                  !.result = km[r].labels])]
    /\ UNCHANGED <<lc, app, distVars, argVars, tape, um>>

Entry == \E r \in runs : Turn(r) /\ KmEntry(r)
Seed == \E r \in runs : Turn(r) /\ KmSeed(r)
Seeded == \E r \in runs : Turn(r) /\ KmSeeded(r)
AssignPass == \E r \in runs : Turn(r) /\ KmAssign(r)
UpdateStep == \E r \in runs : Turn(r) /\ KmUpdate(r)
Return == \E r \in runs : Turn(r) /\ KmReturn(r)

KmNext == Entry \/ Seed \/ Seeded \/ AssignPass \/ UpdateStep \/ Return

(***************************************************************************)
(* umap(embeddings, nComponents = 2, nNeighbors), lines 502-567.           *)
(* The run's record:                                                       *)
(*   heap       address -> array; addresses 1..N are embeddings[0..N-1]    *)
(*   positions  the addresses of the position arrays, sample 0 first       *)
(*   distances  the N x N matrix of pairwise distances                     *)
(*   knn        per sample, its list of neighbours {j, d} (j 0-based)      *)
(*   iter       the pass counter                                           *)
(*   divisors   the class of the divisors of the force terms so far        *)
(*   written    per sample, how many passes have written its position     *)
(*   read       for the last pass, what `written` was of the positions     *)
(*              its force terms read, at the time they read them           *)
(*   displaced  the samples (1-based) whose forces were not 0 in some pass: *)
(*              a position changes only by forces[i][d] * decay, and       *)
(*              x + 0 * decay is x                                         *)
(*   pc         "idle" | "entry" | "distances" | "knn" | "pass" | "done"   *)
(* A position coordinate is a real number whose value the model does not   *)
(* track (Real): the passes are modelled by what they read and write.      *)
(***************************************************************************)
nComponents == 2
iterations == 200

\* (Math.random() - 0.5) * 10: some finite number
Real == [kind |-> "real", n |-> 0, d |-> 1]

UmIdle ==
    [ pc |-> "idle", heap |-> <<>>, positions |-> <<>>, distances |-> <<>>,
      knn |-> <<>>, iter |-> 0, divisors |-> "none", displaced |-> {},
      written |-> <<>>, read |-> {},
      outcome |-> "none", result |-> <<>> ]

\* line 506: embeddings.map(() => Array(nComponents).fill(0).map(random)):
\* sample i's position array is a fresh one
PositionAddr(i, fresh) == fresh

\* lines 503-506
UmEntry ==
    /\ um.pc = "entry"
    /\ IF N = 0
       THEN um' = [um EXCEPT !.pc = "done", !.outcome = "threw"]
       ELSE um' = [um EXCEPT
                !.pc = "distances",
                !.heap = um.heap \o [i \in 1..N |-> [c \in 1..nComponents |-> Real]],
                !.positions = [i \in 1..N |-> PositionAddr(i, N + i)],
                !.written = [i \in 1..N |-> 0]]
    /\ UNCHANGED <<lc, app, distVars, argVars, km, tape>>

\* lines 514-516: the distance of two embeddings over the first dim coordinates
RECURSIVE UmSumFrom(_, _, _, _, _)
UmSumFrom(a, b, d, dim, sum) ==
    IF d > dim THEN sum
    ELSE UmSumFrom(a, b, d + 1, dim, NumAdd(sum, DiffPow(At(a, d), At(b, d))))

\* lines 508-519
UmDistances ==
    /\ um.pc = "distances"
    /\ LET dim == Len(um.heap[1])
       IN  um' = [um EXCEPT
                !.pc = "knn",
                !.distances = [i \in 1..N |-> [j \in 1..N |->
                    IF i = j THEN NumInt(0)
                    ELSE MathSqrt(UmSumFrom(um.heap[i], um.heap[j], 1, dim,
                                            NumInt(0)))]]]
    /\ UNCHANGED <<lc, app, distVars, argVars, km, tape>>

\* .map((d, j) => ({ j, d }))
Entries(row) == [j \in 1..Len(row) |-> [j |-> j - 1, d |-> row[j]]]

\* .filter(x => x.j !== i)   (i 0-based)
KeepAll(xs, i) == xs

RECURSIVE SelectOthers(_, _)
SelectOthers(xs, i) ==
    IF xs = <<>> THEN <<>>
    ELSE IF Head(xs).j # i THEN <<Head(xs)>> \o SelectOthers(Tail(xs), i)
    ELSE SelectOthers(Tail(xs), i)

\* .sort((a, b) => a.d - b.d): a stable sort, ascending by d
RECURSIVE InsertSorted(_, _)
InsertSorted(sorted, x) ==
    IF sorted = <<>> THEN <<x>>
    ELSE IF NumLess(x.d, Head(sorted).d) THEN <<x>> \o sorted
    ELSE <<Head(sorted)>> \o InsertSorted(Tail(sorted), x)

RECURSIVE SortByD(_)
SortByD(xs) ==
    IF xs = <<>> THEN <<>>
    ELSE InsertSorted(SortByD(SubSeq(xs, 1, Len(xs) - 1)), xs[Len(xs)])

Min(x, y) == IF x < y THEN x ELSE y

\* .slice(0, end) for end >= 0
Slice0(xs, end) == SubSeq(xs, 1, Min(end, Len(xs)))

\* lines 523-524 for sample i (0-based)
Neighbors(row, i) ==
    Slice0(SortByD(SelectOthers(Entries(row), i)), Min(nNeighbors, N - 1))

\* lines 521-526
UmKnn ==
    /\ um.pc = "knn"
    /\ um' = [um EXCEPT
             !.pc = "pass", !.iter = 0,
             !.knn = [i \in 1..N |-> Neighbors(um.distances[i], i - 1)]]
    /\ UNCHANGED <<lc, app, distVars, argVars, km, tape>>

(***************************************************************************)
(* The numbers of a pass.  A position coordinate is not tracked by value   *)
(* but by the set of numbers it can be, named by a class:                  *)
(*   "zero", "positive", "negative"   0, a finite x > 0, a finite x < 0    *)
(*   "nonneg"   a finite x >= 0          "real"   any finite number        *)
(*   "inf"      finite or infinite       "nan"    any value, NaN included  *)
(*   "none"     no number at all (nothing computed yet)                    *)
(* Each operation gives the class of its results over all the numbers of   *)
(* the classes of its operands.  Magnitudes are not tracked: a sum or a    *)
(* product of finite numbers is taken to be finite.                        *)
(***************************************************************************)
ClassOf(x) ==
    IF x.kind \in {"nan", "undefined"} THEN "nan"
    ELSE IF x.kind = "num"
         THEN (IF x.n > 0 THEN "positive" ELSE IF x.n = 0 THEN "zero" ELSE "negative")
    ELSE IF x.kind = "sqrt" THEN "positive"
    ELSE x.kind

OfClass(c) == [kind |-> c, n |-> 0, d |-> 1]

MayBeZero(c) == c \in {"zero", "nonneg", "real"}
IsFiniteClass(c) == c \in {"zero", "positive", "negative", "nonneg", "real"}

\* the class of the numbers of either class
JoinC(a, b) ==
    IF a = b THEN a
    ELSE IF a = "none" THEN b
    ELSE IF b = "none" THEN a
    ELSE IF a = "nan" \/ b = "nan" THEN "nan"
    ELSE IF a = "inf" \/ b = "inf" THEN "inf"
    ELSE IF {a, b} \subseteq {"zero", "positive", "nonneg"} THEN "nonneg"
    ELSE "real"

\* a + b
AddC(a, b) ==
    IF a = "nan" \/ b = "nan" THEN "nan"
    ELSE IF a = "inf" /\ b = "inf" THEN "nan"
    ELSE IF a = "inf" \/ b = "inf" THEN "inf"
    ELSE IF a = "zero" THEN b
    ELSE IF b = "zero" THEN a
    ELSE IF {a, b} \subseteq {"positive", "nonneg"}
         THEN (IF "positive" \in {a, b} THEN "positive" ELSE "nonneg")
    ELSE IF a = "negative" /\ b = "negative" THEN "negative"
    ELSE "real"

\* -a
NegC(a) ==
    IF a = "positive" THEN "negative"
    ELSE IF a = "negative" THEN "positive"
    ELSE IF a = "nonneg" THEN "real"
    ELSE a

\* a - b
SubC(a, b) == AddC(a, NegC(b))

\* a * b
MulC(a, b) ==
    IF a = "nan" \/ b = "nan" THEN "nan"
    ELSE IF a = "inf" \/ b = "inf"
         THEN (IF MayBeZero(a) \/ MayBeZero(b) THEN "nan" ELSE "inf")
    ELSE IF a = "zero" \/ b = "zero" THEN "zero"
    ELSE IF a = "real" \/ b = "real" THEN "real"
    ELSE IF a = "nonneg" \/ b = "nonneg"
         THEN (IF "negative" \in {a, b} THEN "real" ELSE "nonneg")
    ELSE IF a = b THEN "positive"
    ELSE "negative"

\* a * a
SquareC(a) ==
    IF a \in {"nan", "inf", "zero"} THEN a
    ELSE IF a \in {"positive", "negative"} THEN "positive"
    ELSE "nonneg"

\* a / b: 0 / 0 is NaN, x / 0 is infinite
DivC(a, b) ==
    IF a = "nan" \/ b = "nan" THEN "nan"
    ELSE IF b = "inf" THEN (IF a = "inf" THEN "nan" ELSE "real")
    ELSE IF MayBeZero(b) THEN (IF MayBeZero(a) THEN "nan" ELSE "inf")
    ELSE IF a = "inf" THEN "inf"
    ELSE MulC(a, b)

\* Math.sqrt(a): NaN for a negative number
SqrtC(a) == IF a \in {"negative", "real"} THEN "nan" ELSE a

\* Math.log(a): NaN for a negative number, -Infinity for 0
LogC(a) ==
    IF a \in {"nan", "negative", "real"} THEN "nan"
    ELSE IF a \in {"zero", "nonneg", "inf"} THEN "inf"
    ELSE "real"

(***************************************************************************)
(* One pass, lines 529-564, for sample i (1-based).  p is the list of the  *)
(* classes of the positions, p[j] = <<x, y>>.                              *)
(***************************************************************************)
\* Math.sqrt(dx * dx + dy * dy) + 0.001
WithoutFloor(root) == root

WithFloor(root) == AddC(root, "positive")

\* lines 537-539: what the edge to a neighbour adds to forces[i]
AttractionOf(dx, dy, dist) ==
    LET attraction == MulC("positive", LogC(AddC(dist, "positive")))
    IN  <<DivC(MulC(attraction, dx), dist), DivC(MulC(attraction, dy), dist)>>

\* lines 552-554: what a sampled j with dist < 2 adds to forces[i]
RepulsionOf(dx, dy, dist) ==
    LET repulsion == DivC("negative", MulC(dist, dist))
    IN  <<DivC(MulC(repulsion, dx), dist), DivC(MulC(repulsion, dy), dist)>>

\* lines 534-536 and 548-550: dx, dy, dist from sample i to sample j, with
\* the terms an edge or a draw of j computes from them
DeltaOf(dx, dy) ==
    LET dist == WithFloor(SqrtC(AddC(SquareC(dx), SquareC(dy))))
    IN  [dist |-> dist, attraction |-> AttractionOf(dx, dy, dist),
         repulsion |-> RepulsionOf(dx, dy, dist)]
Delta(p, i, j) == Bind2(SubC(p[j][1], p[i][1]), SubC(p[j][2], p[i][2]), DeltaOf)

\* the table of a pass: e[i][j] from sample i to sample j
Deltas(p) == Built([i \in 1..Len(p) |-> Built([j \in 1..Len(p) |-> Delta(p, i, j)])])

AddForce(f, t) == <<AddC(f[1], t[1]), AddC(f[2], t[2])>>
JoinForce(f, g) == <<JoinC(f[1], g[1]), JoinC(f[2], g[2])>>

\* lines 532-541: the neighbours of i, in the order of knn[i]
RECURSIVE Attract(_, _, _, _)
Attract(e, neighbors, a, f) ==
    IF a > Len(neighbors) THEN f
    ELSE Attract(e, neighbors, a + 1,
                 Bind(f, LAMBDA g : AddForce(g, e[neighbors[a].j + 1].attraction)))

\* lines 546-555 for one draw: j is any sample; j = i adds nothing, a j at
\* distance 2 or more adds nothing, a nearer j adds its repulsion
NeverSame(i, j) == FALSE

\* line 547: if (i === j) continue
Same(i, j) == i = j

RECURSIVE DrawFrom(_, _, _, _)
DrawFrom(e, i, j, f) ==
    IF j > Len(e) THEN f
    ELSE IF Same(i, j) THEN DrawFrom(e, i, j + 1, f)
    ELSE JoinForce(DrawFrom(e, i, j + 1, f),
                   JoinForce(f, AddForce(f, e[j].repulsion)))

\* lines 543-557: sampleSize draws
RECURSIVE Repel(_, _, _, _)
Repel(e, i, s, f) ==
    IF s >= Min(30, Len(e)) THEN f
    ELSE Repel(e, i, s + 1, Bind(f, LAMBDA g : DrawFrom(e, i, 1, g)))

\* forces[i] at the end of the two loops; e is the row of sample i
ForceOn(e, neighbors, i) ==
    Repel(e, i, 0, Attract(e, neighbors, 1, <<"zero", "zero">>))

\* the divisors of the terms computed for sample i: dist, and dist * dist
DivisorsOf(e, neighbors, i) ==
    LET others == { neighbors[a].j + 1 : a \in 1..Len(neighbors) }
                      \cup { j \in 1..Len(e) : ~Same(i, j) }
        dists == { e[j].dist : j \in others }
    IN  dists \cup { MulC(d, d) : d \in dists }

RECURSIVE JoinAll(_, _)
JoinAll(classes, acc) ==
    IF classes = {} THEN acc
    ELSE LET c == CHOOSE x \in classes : TRUE
         IN  JoinAll(classes \ {c}, JoinC(acc, c))

\* lines 559-563: positions[i][c] += forces[i][c] * decay, decay = 1 - iter / iterations
Integrate(p, f, iter) ==
    LET decay == ClassOf(NumSub(NumInt(1), Num(iter, iterations)))
    IN  <<AddC(p[1], MulC(f[1], decay)), AddC(p[2], MulC(f[2], decay))>>

\* lines 534-535 and 548-549: the samples whose positions the force terms
\* of sample i read: i itself, its neighbours, and every j a draw can give
ReadBy(neighbors, i, n) ==
    LET others == { neighbors[a].j + 1 : a \in 1..Len(neighbors) }
                      \cup { j \in 1..n : ~Same(i, j) }
    IN  IF others = {} THEN {} ELSE others \cup {i}

WriteAtOnce(written, i) == [written EXCEPT ![i] = written[i] + 1]

\* lines 532-557: the forces of sample i are accumulated in forces[i]; no
\* position is written
AfterForces(written, i) == written

\* lines 532-557, sample by sample: what the terms read
RECURSIVE ReadIn(_, _, _, _)
ReadIn(knn, written, i, read) ==
    IF i > Len(written) THEN read
    ELSE ReadIn(knn, AfterForces(written, i), i + 1,
                read \cup { written[j] : j \in ReadBy(knn[i], i, Len(written)) })

KeepGoingUntilStill(u) ==
    u.iter < iterations /\ (u.iter = 0 \/ u.displaced # {})

\* line 529: iter < iterations
KeepGoing(u) == u.iter < iterations

\* lines 529-564: one pass.  The forces are fresh arrays; the attraction and
\* repulsion terms read the position arrays; then every position array is
\* written in place.
UmPass ==
    /\ um.pc = "pass"
    /\ KeepGoing(um)
    /\ \E p \in {Built([i \in 1..N |-> <<ClassOf(um.heap[um.positions[i]][1]),
                                          ClassOf(um.heap[um.positions[i]][2])>>])} :
       \E e \in {Deltas(p)} :
       \E forces \in {Built([i \in 1..N |-> ForceOn(e[i], um.knn[i], i)])} :
       \E moved \in {Built([i \in 1..N |->
                        Integrate(p[i], forces[i], um.iter)])} :
       \E divisors \in {JoinAll(UNION { DivisorsOf(e[i], um.knn[i], i) : i \in 1..N },
                                 um.divisors)} :
         um' = [um EXCEPT
                  !.iter = um.iter + 1,
                  !.divisors = divisors,
                  !.read = ReadIn(um.knn, um.written, 1, {}),
                  !.written = [i \in 1..N |-> um.written[i] + 1],
                  !.displaced = um.displaced \cup
                      { i \in 1..N : forces[i] # <<"zero", "zero">> },
                  !.heap = [a \in 1..Len(um.heap) |->
                      IF \E i \in 1..N : um.positions[i] = a
                      THEN LET i == CHOOSE x \in 1..N : um.positions[x] = a
                           IN  [c \in 1..Len(um.heap[a]) |->
                                   IF c <= nComponents THEN OfClass(moved[i][c])
                                   ELSE um.heap[a][c]]
                      ELSE um.heap[a]]]
    /\ UNCHANGED <<lc, app, distVars, argVars, km, tape>>

\* line 566: return positions
UmReturn ==
    /\ um.pc = "pass"
    /\ ~KeepGoing(um)
    /\ um' = [um EXCEPT !.pc = "done", !.outcome = "returned",
                        !.result = um.positions]
    /\ UNCHANGED <<lc, app, distVars, argVars, km, tape>>

(***************************************************************************)
(* labelClusters(messages, labels), lines 625-658.                         *)
(* A text is a sequence of characters (strings of length one); a token is  *)
(* a sequence of characters too.                                           *)
(***************************************************************************)
UpperCase == <<"A", "B", "C", "D", "E", "F", "G", "H", "I", "J", "K", "L", "M",
               "N", "O", "P", "Q", "R", "S", "T", "U", "V", "W", "X", "Y", "Z">>
LowerCase == <<"a", "b", "c", "d", "e", "f", "g", "h", "i", "j", "k", "l", "m",
               "n", "o", "p", "q", "r", "s", "t", "u", "v", "w", "x", "y", "z">>
Digits == <<"0", "1", "2", "3", "4", "5", "6", "7", "8", "9">>

Range(s) == { s[i] : i \in 1..Len(s) }
IndexIn(s, c) == CHOOSE i \in 1..Len(s) : s[i] = c

\* one character of text.toLowerCase() and of w.charAt(0).toUpperCase()
CharToLower(c) == IF c \in Range(UpperCase) THEN LowerCase[IndexIn(UpperCase, c)] ELSE c
CharToUpper(c) == IF c \in Range(LowerCase) THEN UpperCase[IndexIn(LowerCase, c)] ELSE c

toLowerCase(text) == [i \in 1..Len(text) |-> CharToLower(text[i])]

\* \s of the regular expressions
IsSpace(c) == c \in {" ", "\n", "\t"}

\* .replace(/[^a-z0-9\s]/g, ' ')
ReplaceOthers(text) ==
    [i \in 1..Len(text) |->
        IF text[i] \in Range(LowerCase) \cup Range(Digits) \/ IsSpace(text[i])
        THEN text[i] ELSE " "]

\* .split(/\s+/): the pieces between the runs of white space; a text that
\* starts or ends with white space has an empty first or last piece
RECURSIVE SplitFrom(_, _, _, _)
SplitFrom(text, i, piece, pieces) ==
    IF i > Len(text) THEN Append(pieces, piece)
    ELSE IF IsSpace(text[i])
         THEN IF i > 1 /\ IsSpace(text[i - 1])
              THEN SplitFrom(text, i + 1, piece, pieces)
              ELSE SplitFrom(text, i + 1, <<>>, Append(pieces, piece))
         ELSE SplitFrom(text, i + 1, Append(piece, text[i]), pieces)
Split(text) == SplitFrom(text, 1, <<>>, <<>>)

stopwords ==
    { <<"t", "h", "e">>, <<"a">>, <<"a", "n">>, <<"i", "s">>,
      <<"a", "r", "e">>, <<"w", "a", "s">>, <<"w", "e", "r", "e">>,
      <<"b", "e">>, <<"b", "e", "e", "n">>, <<"b", "e", "i", "n", "g">>,
      <<"h", "a", "v", "e">>, <<"h", "a", "s">>, <<"h", "a", "d">>,
      <<"d", "o">>, <<"d", "o", "e", "s">>, <<"d", "i", "d">>,
      <<"w", "i", "l", "l">>, <<"w", "o", "u", "l", "d">>,
      <<"c", "o", "u", "l", "d">>, <<"s", "h", "o", "u", "l", "d">>,
      <<"m", "a", "y">>, <<"m", "i", "g", "h", "t">>, <<"m", "u", "s", "t">>,
      <<"s", "h", "a", "l", "l">>, <<"c", "a", "n">>, <<"n", "e", "e", "d">>,
      <<"t", "o">>, <<"o", "f">>, <<"i", "n">>, <<"f", "o", "r">>,
      <<"o", "n">>, <<"w", "i", "t", "h">>, <<"a", "t">>, <<"b", "y">>,
      <<"f", "r", "o", "m">>, <<"a", "s">>, <<"i", "n", "t", "o">>,
      <<"t", "h", "r", "o", "u", "g", "h">>,
      <<"d", "u", "r", "i", "n", "g">>, <<"b", "e", "f", "o", "r", "e">>,
      <<"a", "f", "t", "e", "r">>, <<"a", "b", "o", "v", "e">>,
      <<"b", "e", "l", "o", "w">>, <<"b", "e", "t", "w", "e", "e", "n">>,
      <<"u", "n", "d", "e", "r">>, <<"a", "g", "a", "i", "n">>,
      <<"f", "u", "r", "t", "h", "e", "r">>, <<"t", "h", "e", "n">>,
      <<"o", "n", "c", "e">>, <<"h", "e", "r", "e">>,
      <<"t", "h", "e", "r", "e">>, <<"w", "h", "e", "n">>,
      <<"w", "h", "e", "r", "e">>, <<"w", "h", "y">>, <<"h", "o", "w">>,
      <<"a", "l", "l">>, <<"e", "a", "c", "h">>, <<"f", "e", "w">>,
      <<"m", "o", "r", "e">>, <<"m", "o", "s", "t">>,
      <<"o", "t", "h", "e", "r">>, <<"s", "o", "m", "e">>,
      <<"s", "u", "c", "h">>, <<"n", "o">>, <<"n", "o", "r">>,
      <<"n", "o", "t">>, <<"o", "n", "l", "y">>, <<"o", "w", "n">>,
      <<"s", "a", "m", "e">>, <<"s", "o">>, <<"t", "h", "a", "n">>,
      <<"t", "o", "o">>, <<"v", "e", "r", "y">>, <<"j", "u", "s", "t">>,
      <<"a", "n", "d">>, <<"b", "u", "t">>, <<"i", "f">>, <<"o", "r">>,
      <<"b", "e", "c", "a", "u", "s", "e">>, <<"u", "n", "t", "i", "l">>,
      <<"w", "h", "i", "l", "e">>, <<"t", "h", "i", "s">>,
      <<"t", "h", "a", "t">>, <<"t", "h", "e", "s", "e">>,
      <<"t", "h", "o", "s", "e">>, <<"w", "h", "a", "t">>,
      <<"w", "h", "i", "c", "h">>, <<"w", "h", "o">>, <<"w", "h", "o", "m">>,
      <<"w", "h", "o", "s", "e">>, <<"i", "t">>, <<"i", "t", "s">>, <<"i">>,
      <<"m", "e">>, <<"m", "y">>, <<"m", "y", "s", "e", "l", "f">>,
      <<"w", "e">>, <<"o", "u", "r">>, <<"o", "u", "r", "s">>,
      <<"y", "o", "u">>, <<"y", "o", "u", "r">>, <<"y", "o", "u", "r", "s">>,
      <<"h", "e">>, <<"h", "i", "m">>, <<"h", "i", "s">>, <<"s", "h", "e">>,
      <<"h", "e", "r">>, <<"h", "e", "r", "s">>, <<"t", "h", "e", "y">>,
      <<"t", "h", "e", "m">>, <<"t", "h", "e", "i", "r">>, <<"a", "m">>,
      <<"a", "b", "o", "u", "t">>, <<"g", "e", "t">>, <<"l", "i", "k", "e">>,
      <<"m", "a", "k", "e">>, <<"k", "n", "o", "w">>,
      <<"t", "h", "i", "n", "k">>, <<"w", "a", "n", "t">>, <<"s", "e", "e">>,
      <<"l", "o", "o", "k">>, <<"u", "s", "e">>, <<"f", "i", "n", "d">>,
      <<"g", "i", "v", "e">>, <<"t", "e", "l", "l">>, <<"t", "r", "y">>,
      <<"h", "e", "l", "p">>, <<"p", "l", "e", "a", "s", "e">>,
      <<"t", "h", "a", "n", "k">>, <<"t", "h", "a", "n", "k", "s">>,
      <<"h", "i">>, <<"h", "e", "l", "l", "o">>, <<"h", "e", "y">>,
      <<"y", "e", "s">>, <<"y", "e", "a", "h">>, <<"o", "k">>,
      <<"o", "k", "a", "y">>, <<"s", "u", "r", "e">>,
      <<"r", "i", "g", "h", "t">>, <<"u", "s", "i", "n", "g">>,
      <<"n", "e", "e", "d">>, <<"w", "a", "n", "t">>,
      <<"s", "o", "m", "e", "t", "h", "i", "n", "g">>,
      <<"a", "n", "y", "t", "h", "i", "n", "g">>,
      <<"e", "v", "e", "r", "y", "t", "h", "i", "n", "g">> }

\* .filter(w => w.length > 2 && !stopwords.has(w))
KeepWord(w) == Len(w) > 2 /\ w \notin stopwords

\* lines 641-642
TextWords(text) ==
    SelectSeq(Split(ReplaceOthers(toLowerCase(text))), KeepWord)

(***************************************************************************)
(* The object words = {}: its own properties in the order of creation, as  *)
(* a sequence of [key, value].  A value is a number n, or the string       *)
(* "function Object() { [native code] }" followed by n characters "1":     *)
(* words["constructor"] of a fresh object is the inherited function        *)
(* Object, which is truthy, and Object + 1 is that string.                 *)
(***************************************************************************)
ConstructorKey == <<"c", "o", "n", "s", "t", "r", "u", "c", "t", "o", "r">>

HasOwn(words, w) == \E i \in 1..Len(words) : words[i].key = w
OwnIndex(words, w) == CHOOSE i \in 1..Len(words) : words[i].key = w

\* (words[word] || 0) + 1
NextValue(words, w) ==
    IF HasOwn(words, w)
    THEN [words[OwnIndex(words, w)].value EXCEPT !.n = @ + 1]
    ELSE IF w = ConstructorKey THEN [kind |-> "string", n |-> 1]
    ELSE [kind |-> "number", n |-> 1]

\* line 643, for one word
CountWord(words, w) ==
    IF HasOwn(words, w)
    THEN [words EXCEPT ![OwnIndex(words, w)].value = NextValue(words, w)]
    ELSE Append(words, [key |-> w, value |-> NextValue(words, w)])

RECURSIVE CountWords(_, _, _)
CountWords(words, textWords, i) ==
    IF i > Len(textWords) THEN words
    ELSE CountWords(CountWord(words, textWords[i]), textWords, i + 1)

\* lines 640-644: every text of the cluster, in order
RECURSIVE CountTexts(_, _, _)
CountTexts(words, texts, i) ==
    IF i > Len(texts) THEN words
    ELSE CountTexts(CountWords(words, TextWords(texts[i]), 1), texts, i + 1)

\* line 638: const words = {} starts every cluster with a fresh object
KeepWords(previous) == previous

NewWords(previous) == <<>>

(***************************************************************************)
(* Object.entries(words): the keys that are array indices ("0", "7",       *)
(* "2024": canonical decimal numbers below 2^32 - 1) come first, in        *)
(* ascending numeric order, then the other keys in the order of creation.  *)
(***************************************************************************)
MaxArrayIndex == <<"4", "2", "9", "4", "9", "6", "7", "2", "9", "4">>

DigitOf(c) == IndexIn(Digits, c) - 1

\* x < y for two canonical decimal numbers
RECURSIVE DecimalLessFrom(_, _, _)
DecimalLessFrom(x, y, i) ==
    IF i > Len(x) THEN FALSE
    ELSE IF DigitOf(x[i]) # DigitOf(y[i]) THEN DigitOf(x[i]) < DigitOf(y[i])
    ELSE DecimalLessFrom(x, y, i + 1)
DecimalLess(x, y) ==
    IF Len(x) # Len(y) THEN Len(x) < Len(y) ELSE DecimalLessFrom(x, y, 1)

IsArrayIndex(w) ==
    /\ w # <<>>
    /\ \A i \in 1..Len(w) : w[i] \in Range(Digits)
    /\ Len(w) = 1 \/ w[1] # "0"
    /\ ~DecimalLess(MaxArrayIndex, w)

RECURSIVE InsertIndexKey(_, _)
InsertIndexKey(sorted, e) ==
    IF sorted = <<>> THEN <<e>>
    ELSE IF DecimalLess(e.key, Head(sorted).key) THEN <<e>> \o sorted
    ELSE <<Head(sorted)>> \o InsertIndexKey(Tail(sorted), e)

RECURSIVE IndexKeysAscending(_)
IndexKeysAscending(entries) ==
    IF entries = <<>> THEN <<>>
    ELSE InsertIndexKey(IndexKeysAscending(SubSeq(entries, 1, Len(entries) - 1)),
                        entries[Len(entries)])

HasIndexKey(e) == IsArrayIndex(e.key)
HasOtherKey(e) == ~IsArrayIndex(e.key)

ObjectEntries(words) ==
    IndexKeysAscending(SelectSeq(words, HasIndexKey)) \o SelectSeq(words, HasOtherKey)

(***************************************************************************)
(* .sort((a, b) => b[1] - a[1]): the difference of two numbers, NaN as     *)
(* soon as one value is the string, and sort reads NaN as 0.  The sort is  *)
(* stable.  When the comparator is not consistent (a string value among    *)
(* numbers that differ: "equal" is not transitive) the order is left to    *)
(* the implementation: any permutation.                                    *)
(***************************************************************************)
Compare(a, b) ==
    IF a.value.kind = "string" \/ b.value.kind = "string" THEN 0
    ELSE b.value.n - a.value.n

ConsistentComparator(entries) ==
    \/ \A i \in 1..Len(entries) : entries[i].value.kind = "number"
    \/ \A i, j \in 1..Len(entries) :
          (entries[i].value.kind = "number" /\ entries[j].value.kind = "number")
              => entries[i].value.n = entries[j].value.n

RECURSIVE InsertByCount(_, _)
InsertByCount(sorted, e) ==
    IF sorted = <<>> THEN <<e>>
    ELSE IF Compare(e, Head(sorted)) < 0 THEN <<e>> \o sorted
    ELSE <<Head(sorted)>> \o InsertByCount(Tail(sorted), e)

RECURSIVE StableSort(_)
StableSort(entries) ==
    IF entries = <<>> THEN <<>>
    ELSE InsertByCount(StableSort(SubSeq(entries, 1, Len(entries) - 1)),
                       entries[Len(entries)])

Orders(entries) ==
    { [i \in 1..Len(entries) |-> entries[p[i]]] :
        p \in { q \in [1..Len(entries) -> 1..Len(entries)] :
                  \A i, j \in 1..Len(entries) : q[i] = q[j] => i = j } }

\* the outcomes of the sort; an implementation sorts the same array the same
\* way every time, so an array sorted before (log) is sorted as before
SortOutcomes(entries, log) ==
    IF ConsistentComparator(entries) THEN {StableSort(entries)}
    ELSE IF \E l \in log : l.entries = entries
    THEN { l.sorted : l \in { m \in log : m.entries = entries } }
    ELSE Orders(entries)

\* .slice(0, 3).map(([word]) => word)
TopWords(sortedEntries) ==
    [i \in 1..Min(3, Len(sortedEntries)) |-> sortedEntries[i].key]

\* w.charAt(0).toUpperCase() + w.slice(1)
TitleCase(w) == IF w = <<>> THEN <<>> ELSE <<CharToUpper(w[1])>> \o Tail(w)

\* the decimal digits of a natural number
RECURSIVE DecimalOf(_)
DecimalOf(x) ==
    IF x < 10 THEN <<Digits[x + 1]>>
    ELSE Append(DecimalOf(x \div 10), Digits[(x % 10) + 1])

\* `Topic ${parseInt(cluster) + 1}`
TopicLabel(cluster) == <<"T", "o", "p", "i", "c", " ">> \o DecimalOf(cluster + 1)

\* lines 648-654
LabelOf(sorted, cluster) ==
    IF Len(sorted) >= 2
    THEN TitleCase(sorted[1]) \o <<" ", "&", " ">> \o TitleCase(sorted[2])
    ELSE IF Len(sorted) = 1 THEN TitleCase(sorted[1])
    ELSE TopicLabel(cluster)

(***************************************************************************)
(* A call of labelClusters, and the same call made again.  The record:     *)
(*   messages, labels  the caller's arguments                              *)
(*   clusterTexts      cluster -> the texts pushed for it, in order        *)
(*   pending           the clusters for (const cluster in clusterTexts)    *)
(*                     is still to visit, integer keys in ascending order  *)
(*   words, sorted     the locals of the loop body; sorted per cluster     *)
(*   clusterLabels     cluster -> label                                    *)
(*   results           what the calls made so far returned                 *)
(*   log               the arrays sort has ordered, with the order it gave *)
(*   pc                "idle" | "entry" | "label" | "done"                 *)
(***************************************************************************)
LcIdle ==
    [ pc |-> "idle", messages |-> <<>>, labels |-> <<>>, clusterTexts |-> <<>>,
      pending |-> <<>>, words |-> <<>>, sorted |-> <<>>, clusterLabels |-> <<>>,
      results |-> <<>>, log |-> {} ]

\* obj[key] = value
Put(obj, key, value) ==
    [c \in DOMAIN obj \cup {key} |-> IF c = key THEN value ELSE obj[c]]

\* lines 626-631
RECURSIVE GroupFrom(_, _, _, _)
GroupFrom(messages, labels, i, clusterTexts) ==
    IF i > Len(messages) THEN clusterTexts
    ELSE LET cluster == labels[i]
             texts == IF cluster \in DOMAIN clusterTexts
                      THEN clusterTexts[cluster] ELSE <<>>
         IN  GroupFrom(messages, labels, i + 1,
                 Put(clusterTexts, cluster, Append(texts, messages[i].text)))
GroupTexts(messages, labels) == GroupFrom(messages, labels, 1, <<>>)

\* the integer keys of an object in ascending order
RECURSIVE KeysAscending(_)
KeysAscending(keys) ==
    IF keys = {} THEN <<>>
    ELSE LET least == CHOOSE c \in keys : \A d \in keys : c <= d
         IN  <<least>> \o KeysAscending(keys \ {least})

LcGroup ==
    /\ lc.pc = "entry"
    /\ \E clusterTexts \in {GroupTexts(lc.messages, lc.labels)} :
         lc' = [lc EXCEPT !.pc = "label",
                          !.clusterTexts = clusterTexts,
                          !.pending = KeysAscending(DOMAIN clusterTexts),
                          !.sorted = <<>>,
                          !.clusterLabels = <<>>]
    /\ UNCHANGED <<app, distVars, argVars, km, tape, um>>

\* lines 636-655 for one cluster
LcLabel ==
    /\ lc.pc = "label"
    /\ lc.pending # <<>>
    /\ \E cluster \in {Head(lc.pending)} :
       \E words \in {CountTexts(NewWords(lc.words), lc.clusterTexts[cluster], 1)} :
       \E entries \in {ObjectEntries(words)} :
       \E sortedEntries \in SortOutcomes(entries, lc.log) :
       \E sorted \in {TopWords(sortedEntries)} :
         lc' = [lc EXCEPT
                  !.pending = Tail(lc.pending),
                  !.words = words,
                  !.sorted = Put(lc.sorted, cluster, sorted),
                  !.clusterLabels =
                      Put(lc.clusterLabels, cluster, LabelOf(sorted, cluster)),
                  !.log = IF ConsistentComparator(entries) THEN lc.log
                          ELSE lc.log \cup
                               {[entries |-> entries, sorted |-> sortedEntries]}]
    /\ UNCHANGED <<app, distVars, argVars, km, tape, um>>

\* line 657
LcReturn ==
    /\ lc.pc = "label"
    /\ lc.pending = <<>>
    /\ lc' = [lc EXCEPT !.pc = "done",
                        !.results = Append(lc.results, lc.clusterLabels)]
    /\ UNCHANGED <<app, distVars, argVars, km, tape, um>>

\* the caller calls again with the same messages and the same labels
LcCallAgain ==
    /\ lc.pc = "done"
    /\ Len(lc.results) < 2
    /\ lc' = [lc EXCEPT !.pc = "entry"]
    /\ UNCHANGED <<app, distVars, argVars, km, tape, um>>

(***************************************************************************)
(* The page.  app holds                                                    *)
(*   CONFIG           analysisMode, apiProvider, apiKey (lines 17-37); a   *)
(*                    key is <<>> for null, else <<string>>                *)
(*   uploadDisabled   whether the overlay over the upload step is shown    *)
(*                    (its class list lacks 'hidden')                      *)
(*   apiKeyValidated, validateBtn (disabled or not), validationStatus      *)
(*   request          the validation request in flight: what was sent      *)
(*   accepted         the (key, provider) pairs for which validateApiKey   *)
(*                    has returned true                                    *)
(*   screen           the screen that is active                            *)
(*   disk, uploads    the files the user has, each by the number of user   *)
(*                    messages parseExport finds in it, and the number of  *)
(*                    files the user hands to the page                     *)
(*   files            per processing run, the number of user messages in   *)
(*                    the file handed to handleFile (0: no file yet)       *)
(*   batch            per processing run, the array parseExport returned:  *)
(*                    the messages kept, each by its place (0-based) among *)
(*                    the file's messages sorted by timestamp              *)
(*   run              per processing run, its position and the clusters    *)
(*                    enhanceClusterInsights has still to visit            *)
(*   state            state.messages, .embeddings, .coords2d: the batch    *)
(*                    the array was computed from (0: the empty array);    *)
(*                    state.points: the batches its texts, its coordinates *)
(*                    and its cluster slots were computed from             *)
(*   rendered         the points renderResults drew last                   *)
(*   calls            the calls made to the AI functions, each with the    *)
(*                    CONFIG.analysisMode at the time of the call          *)
(***************************************************************************)
null == <<>>

\* what the user can leave in the key field, and String.prototype.trim
Typed == { "", "sk-a", " sk-a ", "sk-b", "sk-x" }
trim(value) ==
    IF value = " sk-a " THEN "sk-a" ELSE value

Modes == { "basic", "webllm", "api" }
Providers == { "openai", "anthropic" }

\* the answer of the provider's server to a request with this key: ok or not
ServerAccepts(key, provider) ==
    \/ key = <<"sk-a">> /\ provider = "openai"
    \/ key = <<"sk-b">>

\* !CONFIG.apiKey
Falsy(key) == key = null \/ key = <<"">>

NoRequest == [sent |-> FALSE, key |-> null, provider |-> "openai"]

Runs == {1, 2}
NoPoints == [text |-> 0, coords |-> 0, cluster |-> 0]
\* lines 1439 and 1484-1496: what generateEnhancedInsights adds to the basic
\* insights, and the narratives enhanceClusterInsights has replaced
NoInsights ==
    [aiAnalysis |-> FALSE, fallbackToBasic |-> FALSE, fallbackReason |-> "",
     aiNarratives |-> 0]

NoRun == [pc |-> "none", clusters |-> 0, sent |-> FALSE, insights |-> NoInsights]

AppIdle ==
    [ CONFIG |-> [analysisMode |-> "basic", apiProvider |-> "openai",
                  apiKey |-> null],
      uploadDisabled |-> TRUE, apiKeyValidated |-> FALSE,
      validateBtn |-> [disabled |-> FALSE], validationStatus |-> "",
      request |-> NoRequest, accepted |-> {},
      screen |-> "upload-screen",
      disk |-> {}, uploads |-> 0,
      files |-> [r \in Runs |-> 0],
      batch |-> [r \in Runs |-> <<>>],
      run |-> [r \in Runs |-> NoRun],
      state |-> [messages |-> 0, embeddings |-> 0, coords2d |-> 0,
                 clusters |-> <<>>, points |-> NoPoints,
                 insights |-> NoInsights],
      kmeansCalls |-> {},
      rendered |-> NoPoints,
      calls |-> {} ]

\* the mode options, the provider options, the key field and the upload
\* zone are parts of the upload screen: the user reaches them while it is
\* the active screen
OnUploadScreen == app.screen = "upload-screen"

\* lines 1136-1168: a click on a mode option
ModeClick ==
    /\ OnUploadScreen
    /\ \E mode \in Modes :
        /\ app' = [app EXCEPT !.CONFIG.analysisMode = mode,
                              !.apiKeyValidated = FALSE,
                              !.validationStatus = "",
                              !.uploadDisabled = (mode = "api")]
        /\ UNCHANGED <<lc, distVars, argVars, km, tape, um>>

\* lines 1173-1184: a click on a provider option
ProviderClick ==
    /\ OnUploadScreen
    /\ \E provider \in Providers :
        /\ app' = [app EXCEPT !.CONFIG.apiProvider = provider,
                              !.apiKeyValidated = FALSE,
                              !.validationStatus = "",
                              !.uploadDisabled = TRUE]
        /\ UNCHANGED <<lc, distVars, argVars, km, tape, um>>

\* lines 1189-1198: an input event of the key field
KeyInput ==
    /\ OnUploadScreen
    /\ \E value \in Typed :
        /\ app' = [app EXCEPT !.CONFIG.apiKey = <<trim(value)>>,
                              !.apiKeyValidated = FALSE,
                              !.validationStatus = "",
                              !.uploadDisabled = TRUE]
        /\ UNCHANGED <<lc, distVars, argVars, km, tape, um>>

\* the request of validateApiKey carries the key and the provider read when
\* it is called, lines 1255-1276
RequestOf(config) ==
    [sent |-> TRUE, key |-> config.apiKey, provider |-> config.apiProvider]

\* lines 1203-1216: a click on the validate button (a disabled button gets
\* no click), up to the await of the fetch
ValidateClick ==
    /\ OnUploadScreen
    /\ ~app.validateBtn.disabled
    /\ IF Falsy(app.CONFIG.apiKey)
       THEN app' = [app EXCEPT !.validationStatus = "error"]
       ELSE app' = [app EXCEPT !.validateBtn.disabled = TRUE,
                               !.validationStatus = "loading",
                               !.request = RequestOf(app.CONFIG)]
    /\ UNCHANGED <<lc, distVars, argVars, km, tape, um>>

\* lines 1217-1221: isValid is true
Unlock(a) ==
    [a EXCEPT !.apiKeyValidated = TRUE, !.validationStatus = "success",
              !.uploadDisabled = FALSE]

\* lines 1216-1234: the fetch settles.  It is rejected (no network) or
\* answered; an answer that is not ok makes validateApiKey throw, an ok one
\* makes it return true.
ValidateResponse ==
    /\ app.request.sent
    /\ \E answered \in BOOLEAN :
         IF answered /\ ServerAccepts(app.request.key, app.request.provider)
         THEN app' = [Unlock(app) EXCEPT
                          !.validateBtn.disabled = FALSE,
                          !.request = NoRequest,
                          !.accepted = app.accepted \cup
                              {<<app.request.key, app.request.provider>>}]
         ELSE app' = [app EXCEPT !.validationStatus = "error",
                                 !.validateBtn.disabled = FALSE,
                                 !.request = NoRequest]
    /\ UNCHANGED <<lc, distVars, argVars, km, tape, um>>

(***************************************************************************)
(* handleFile and processConversations, lines 377-392 and 669-732.  There  *)
(* is no guard against a second call of handleFile while an earlier one is *)
(* awaiting; every call works on the one global state.  A run's position:  *)
(*   "reading"        await file.text()                      line 384      *)
(*   "embedding"      await generateEmbeddings(...)          line 682      *)
(*   "wait-umap"      await of 50 ms                         line 685      *)
(*   "wait-kmeans"    await of 50 ms                         line 689      *)
(*   "wait-insights"  await of 50 ms                         line 718      *)
(*   "ai"             await generateWithWebLLM / generateWithAPI, 1477-80  *)
(*   "narrative"      the same in enhanceClusterInsights, lines 1521-25    *)
(*   "wait-render"    await of 50 ms                         line 722      *)
(*   "done"           handleFile has returned                              *)
(***************************************************************************)
\* lines 17-37: CONFIG
minClusters == 4
maxClusters == 12
messagesPerCluster == 15
maxMessages == 500

\* line 674: state.messages.length < 5
MinMessages == 5

FileSizes == (MinMessages - 1)..(MinMessages + MaxExtra)

\* lines 467-470: more than maxMessages messages are filtered by
\* i % step === 0 and cut to the first maxMessages
Sampled(messages) ==
    IF Len(messages) > maxMessages
    THEN LET step == Len(messages) \div maxMessages
             filtered == SelectSeq(messages, LAMBDA i : i % step = 0)
         IN  SubSeq(filtered, 1, Min(maxMessages, Len(filtered)))
    ELSE messages

\* lines 454-472: parseExport, for a file of m user messages; the sort puts
\* them in the order of their timestamps, message i at place i
parseExport(m) == Sampled([i \in 1..m |-> i - 1])

NeverTooFew(n) == FALSE

\* line 674: state.messages.length < 5
TooFew(n) == n < MinMessages

\* the length of an array computed from batch b
Count(a, b) == IF b = 0 THEN 0 ELSE Len(a.batch[b])

At_(r, pc) == app.run[r].pc = pc

\* lines 364-374 and 377-384: a file is dropped or chosen, while the upload
\* zone can be reached (the upload screen is active and the overlay is not
\* over it), and handleFile runs up to its first await
HandleFile(r) ==
    /\ OnUploadScreen
    /\ ~app.uploadDisabled
    /\ At_(r, "none")
    /\ r = 1 \/ ~At_(1, "none")
    /\ r <= app.uploads
    /\ \E n \in app.disk :
         app' = [app EXCEPT !.files[r] = n, !.run[r].pc = "reading"]
    /\ UNCHANGED <<lc, distVars, argVars, km, tape, um>>

\* lines 385-387 and 670-682: the text is read; the processing screen is
\* shown; state.messages is the parsed batch; too few messages end the run
\* on the upload screen, else generateEmbeddings starts on state.messages
ProcessConversations(r) ==
    /\ At_(r, "reading")
    /\ \E messages \in {parseExport(app.files[r])} :
       IF TooFew(Len(messages))
       THEN app' = [app EXCEPT !.batch[r] = messages,
                               !.state.messages = r,
                               !.screen = "upload-screen",
                               !.run[r].pc = "done"]
       ELSE app' = [app EXCEPT !.batch[r] = messages,
                               !.state.messages = r,
                               !.screen = "processing-screen",
                               !.run[r].pc = "embedding"]
    /\ UNCHANGED <<lc, distVars, argVars, km, tape, um>>

\* lines 486-499 and 682-685: generateEmbeddings returns the embeddings of
\* the messages it was called with, and they are stored in state.embeddings
Embedded(r) ==
    /\ At_(r, "embedding")
    /\ app' = [app EXCEPT !.state.embeddings = r, !.run[r].pc = "wait-umap"]
    /\ UNCHANGED <<lc, distVars, argVars, km, tape, um>>

\* lines 504 and 571: umap and kmeans read embeddings[0].length, a TypeError
\* when state.embeddings is empty
NoSamples(a) == Count(a, a.state.embeddings) = 0

\* lines 727-731: the catch of processConversations
Caught(a, r) == [a EXCEPT !.screen = "upload-screen", !.run[r].pc = "done"]

\* lines 686-689: state.coords2d = umap(state.embeddings, ...)
Mapped(r) ==
    /\ At_(r, "wait-umap")
    /\ IF NoSamples(app)
       THEN app' = Caught(app, r)
       ELSE app' = [app EXCEPT !.state.coords2d = app.state.embeddings,
                               !.run[r].pc = "wait-kmeans"]
    /\ UNCHANGED <<lc, distVars, argVars, km, tape, um>>

\* lines 702-715: state.messages.map(...) reads state.coords2d[i][0] for
\* every message i, a TypeError when coords2d is the shorter array
PointsOf(a) ==
    [text |-> a.state.messages, coords |-> a.state.coords2d,
     cluster |-> a.state.embeddings]

PointsThrow(a) ==
    Count(a, a.state.messages) > Count(a, a.state.coords2d)

MathMax(x, y) == IF x > y THEN x ELSE y

\* line 691: Math.max(CONFIG.minClusters, Math.min(CONFIG.maxClusters,
\* Math.floor(state.messages.length / CONFIG.messagesPerCluster)))
numClusters(n) ==
    MathMax(minClusters, Min(maxClusters, n \div messagesPerCluster))

\* line 692: two of the label arrays kmeans returns for n samples and K
\* slots: every sample in slot 0 (the seeds are equal), and sample i in
\* slot i % K
Labelings(n, K) ==
    { [i \in 1..n |-> 0], [i \in 1..n |-> (i - 1) % K] }

\* line 628: const cluster = labels[i], undefined beyond the end of labels
KeyOf(labels, i) == IF i <= Len(labels) THEN <<labels[i]>> ELSE null

\* lines 626-631 and 634-655: labelClusters gives a label to every key
\* under which it filed one of the messages
LabelledKeys(nMessages, labels) ==
    { KeyOf(labels, i) : i \in 1..nMessages }

\* lines 695-696 and 699: clusterCounts[id] || 0; nothing is counted under
\* the key "undefined"
CountOf(labels, key) ==
    IF key = null THEN 0
    ELSE Cardinality({ i \in 1..Len(labels) : labels[i] = key[1] })

\* line 698: Object.entries lists the integer keys in ascending order and
\* then the other keys; line 699: parseInt(id) is NaN for "undefined"
EntriesOf(nMessages, labels) ==
    LET keys == LabelledKeys(nMessages, labels)
        ints == { key[1] : key \in keys \ {null} }
        ascending ==
            [p \in 1..Cardinality(ints) |->
                CHOOSE x \in ints : Cardinality({ y \in ints : y < x }) = p - 1]
    IN  [p \in 1..Cardinality(ints) |->
            [id |-> NumInt(ascending[p]),
             count |-> CountOf(labels, <<ascending[p]>>)]]
        \o (IF null \in keys THEN <<[id |-> NaN, count |-> 0]>> ELSE <<>>)

\* line 700: .sort((a, b) => b.count - a.count), a stable sort
ByCount(entries) ==
    LET n == Len(entries)
        rank(i) ==
            Cardinality({ j \in 1..n : entries[j].count > entries[i].count })
            + Cardinality({ j \in 1..(i - 1) :
                              entries[j].count = entries[i].count }) + 1
    IN  [p \in 1..n |-> entries[CHOOSE i \in 1..n : rank(i) = p]]

\* lines 691-718, and 727-731 when the map throws: labels are kmeans of
\* state.embeddings with numClusters slots, the labels of the clusters come
\* from state.messages and labels, state.clusters from these and the counts
\* of labels, the points from state.messages, state.coords2d and labels
Clustered(r) ==
    /\ At_(r, "wait-kmeans")
    /\ \E K \in {numClusters(Count(app, app.state.messages))} :
       \E labels \in Labelings(Count(app, app.state.embeddings), K) :
       \E clusters \in
           {Built(ByCount(EntriesOf(Count(app, app.state.messages), labels)))} :
       \E calls \in
           {app.kmeansCalls \cup
               {[N |-> Count(app, app.state.embeddings), K |-> K]}} :
         IF NoSamples(app)
         THEN app' = Caught([app EXCEPT !.kmeansCalls = calls], r)
         ELSE IF PointsThrow(app)
         THEN app' = Caught([app EXCEPT !.kmeansCalls = calls,
                                        !.state.clusters = clusters], r)
         ELSE app' = [app EXCEPT !.kmeansCalls = calls,
                                 !.state.clusters = clusters,
                                 !.state.points = PointsOf(app),
                                 !.run[r].pc = "wait-insights"]
    /\ UNCHANGED <<lc, distVars, argVars, km, tape, um>>

\* lines 1364-1373: generateWithAPI throws without a key, else calls the
\* provider's function
generateWithAPI(a) ==
    {[fn |-> "generateWithAPI", mode |-> a.CONFIG.analysisMode]} \cup
    IF Falsy(a.CONFIG.apiKey) THEN {}
    ELSE IF a.CONFIG.apiProvider = "openai"
    THEN {[fn |-> "callOpenAI", mode |-> a.CONFIG.analysisMode]}
    ELSE {[fn |-> "callAnthropic", mode |-> a.CONFIG.analysisMode]}

\* lines 1476-1480 and 1520-1525: if (CONFIG.analysisMode === 'webllm')
\* generateWithWebLLM, else generateWithAPI; the calls this makes
Generate(a) ==
    IF a.CONFIG.analysisMode = "webllm"
    THEN {[fn |-> "generateWithWebLLM", mode |-> a.CONFIG.analysisMode]}
    ELSE generateWithAPI(a)

\* line 1504 and 1507-1508: the clusters enhanceClusterInsights asks a
\* narrative for are at most 5, each of 3 messages or more
MaxEnhanced(a) ==
    Min(5, Count(a, a.state.messages) \div 3)

\* lines 1343-1358 and 1364-1374: generateWithAPI throws before any
\* request when there is no key; the other calls go out
Sent(a) == a.CONFIG.analysisMode = "webllm" \/ ~Falsy(a.CONFIG.apiKey)

\* lines 1499 and 719: generateEnhancedInsights returns and its result is
\* stored in state.insights
Returned(a, r) ==
    [a EXCEPT !.state.insights = a.run[r].insights,
              !.run[r].pc = "wait-render"]

\* line 1528: the catch of enhanceClusterInsights is empty
KeepBasic(a, r) == a

FailTheRun(a, r) ==
    [a EXCEPT !.screen = "upload-screen", !.run[r].pc = "done"]

\* lines 1490-1497: the catch of generateEnhancedInsights keeps the basic
\* insights, sets the flag and the reason, and the function returns
Fallback(a, r) ==
    Returned([a EXCEPT !.run[r].insights.fallbackToBasic = TRUE,
                       !.run[r].insights.fallbackReason =
                           IF a.CONFIG.analysisMode = "api"
                           THEN "API key error" ELSE "Browser AI error"], r)

\* lines 719 and 1437-1480: generateEnhancedInsights returns the basic
\* insights in mode 'basic', else asks for the analysis and awaits it
GenerateEnhancedInsights(r) ==
    /\ At_(r, "wait-insights")
    /\ IF app.CONFIG.analysisMode = "basic"
       THEN app' = Returned([app EXCEPT !.run[r].insights = NoInsights], r)
       ELSE \E clusters \in 0..MaxEnhanced(app) :
            app' = [app EXCEPT !.calls = app.calls \cup Generate(app),
                               !.run[r] = [pc |-> "ai", clusters |-> clusters,
                                           sent |-> Sent(app),
                                           insights |-> NoInsights]]
    /\ UNCHANGED <<lc, distVars, argVars, km, tape, um>>

\* lines 1502-1531: the next cluster of enhanceClusterInsights, or its end
NextCluster(a, r) ==
    IF a.run[r].clusters = 0
    THEN Returned(a, r)
    ELSE [a EXCEPT !.calls = a.calls \cup Generate(a),
                   !.run[r].pc = "narrative",
                   !.run[r].clusters = a.run[r].clusters - 1,
                   !.run[r].sent = Sent(a)]

\* lines 1482-1498: the analysis arrives, is stored, and
\* enhanceClusterInsights starts; or the call has thrown and the catch
\* keeps the basic insights
Enhanced(r) ==
    /\ At_(r, "ai")
    /\ \E arrived \in (IF app.run[r].sent THEN BOOLEAN ELSE {FALSE}) :
         IF arrived
         THEN app' = NextCluster(
                        [app EXCEPT !.run[r].insights.aiAnalysis = TRUE], r)
         ELSE app' = Fallback(app, r)
    /\ UNCHANGED <<lc, distVars, argVars, km, tape, um>>

\* lines 1519-1529: a narrative arrives and replaces the basic one, or its
\* call has thrown and the catch does nothing; either way the loop goes on
Narrated(r) ==
    /\ At_(r, "narrative")
    /\ \E arrived \in (IF app.run[r].sent THEN BOOLEAN ELSE {FALSE}) :
         IF arrived
         THEN app' = NextCluster(
                        [app EXCEPT !.run[r].insights.aiNarratives = @ + 1], r)
         ELSE app' = NextCluster(KeepBasic(app, r), r)
    /\ UNCHANGED <<lc, distVars, argVars, km, tape, um>>

\* lines 721-725: the results screen is shown and renderResults draws
\* state.points
Render(r) ==
    /\ At_(r, "wait-render")
    /\ app' = [app EXCEPT !.screen = "results-screen",
                          !.rendered = app.state.points,
                          !.run[r].pc = "done"]
    /\ UNCHANGED <<lc, distVars, argVars, km, tape, um>>

\* lines 1084-1087: the reset button of the results screen
ResetClick ==
    /\ app.screen = "results-screen"
    /\ app' = [app EXCEPT !.state = AppIdle.state,
                          !.screen = "upload-screen"]
    /\ UNCHANGED <<lc, distVars, argVars, km, tape, um>>

Upload == \E r \in Runs : HandleFile(r)
Parse == \E r \in Runs : ProcessConversations(r)
Embed == \E r \in Runs : Embedded(r)
Project == \E r \in Runs : Mapped(r)
Cluster == \E r \in Runs : Clustered(r)
Insights == \E r \in Runs : GenerateEnhancedInsights(r)
Enhance == \E r \in Runs : Enhanced(r)
Narrate == \E r \in Runs : Narrated(r)
Show == \E r \in Runs : Render(r)

(***************************************************************************)
(* euclideanDistance called on its own, lines 619-623.  Nothing in it      *)
(* throws: a missing b[i] is undefined and the difference is NaN.          *)
(***************************************************************************)
DistCall ==
    /\ distOut.state = "none"
    /\ distOut' = [state |-> "returned", value |-> euclideanDistance(vecA, vecB)]
    /\ UNCHANGED <<vecA, vecB, argVars, km, tape, um, lc, app>>

(***************************************************************************)
(* Specifications.                                                         *)
(***************************************************************************)
NoVector == <<>>
NoCall == [state |-> "none", value |-> NaN]

InitKmeans(ids) ==
    /\ vecA = NoVector /\ vecB = NoVector /\ distOut = NoCall
    /\ embInput \in EmbeddingSets
    /\ k \in 1..MaxN
    /\ maxIterations \in 0..MaxIt
    /\ nNeighbors = 0
    /\ runs = ids
    /\ km = [r \in ids |-> NewRun]
    /\ tape = <<>>
    /\ um = UmIdle
    /\ lc = LcIdle /\ app = AppIdle

InitUmap ==
    /\ vecA = NoVector /\ vecB = NoVector /\ distOut = NoCall
    /\ embInput \in EmbeddingSets
    /\ k = 1
    /\ maxIterations = 0
    /\ nNeighbors \in 0..MaxN
    /\ runs = {}
    /\ km = <<>>
    /\ tape = <<>>
    /\ um = [UmIdle EXCEPT !.pc = "entry", !.heap = embInput]
    /\ lc = LcIdle /\ app = AppIdle

\* one call of kmeans, or one call of umap
Init == InitKmeans({1}) \/ InitUmap

Next ==
    \/ Entry \/ Seed \/ Seeded \/ AssignPass \/ UpdateStep \/ Return
    \/ UmEntry \/ UmDistances \/ UmKnn \/ UmPass \/ UmReturn

Spec == Init /\ [][Next]_vars

\* one call of umap
NextUmap == UmEntry \/ UmDistances \/ UmKnn \/ UmPass \/ UmReturn

SpecUmap == InitUmap /\ [][NextUmap]_vars

\* two calls of kmeans on the same arguments with the same random values
InitDet == InitKmeans({1, 2})

NextDet == Entry \/ Seed \/ Seeded \/ AssignPass \/ UpdateStep \/ Return

SpecDet == InitDet /\ [][NextDet]_vars

\* one call of kmeans on six embeddings in two groups of three identical
\* points, the groups at two different points and in any arrangement of the
\* six indices, with k = 2
GroupSets ==
    { e \in [1..6 -> Points] :
        /\ Cardinality({ e[i] : i \in 1..6 }) = 2
        /\ \A i \in 1..6 : Cardinality({ j \in 1..6 : e[j] = e[i] }) = 3 }

InitGroups ==
    /\ vecA = NoVector /\ vecB = NoVector /\ distOut = NoCall
    /\ embInput \in GroupSets
    /\ k = 2
    /\ maxIterations \in 1..(MaxIt + 1)
    /\ nNeighbors = 0
    /\ runs = {1}
    /\ km = [r \in {1} |-> NewRun]
    /\ tape = <<>>
    /\ um = UmIdle
    /\ lc = LcIdle /\ app = AppIdle

NextGroups == Entry \/ Seed \/ Seeded \/ AssignPass \/ UpdateStep \/ Return

SpecGroups == InitGroups /\ [][NextGroups]_vars

\* the setup screen: the mode, the provider, the key, its validation.
\* The markup of the page decides whether the overlay is shown at first;
\* it is shown or not.
InitKey ==
    /\ vecA = NoVector /\ vecB = NoVector /\ distOut = NoCall
    /\ embInput = <<>> /\ k = 1 /\ maxIterations = 0 /\ nNeighbors = 0
    /\ runs = {} /\ km = <<>> /\ tape = <<>> /\ um = UmIdle
    /\ lc = LcIdle
    /\ \E shown \in BOOLEAN : app = [AppIdle EXCEPT !.uploadDisabled = shown]

NextKey ==
    ModeClick \/ ProviderClick \/ KeyInput \/ ValidateClick \/ ValidateResponse

SpecKey == InitKey /\ [][NextKey]_vars

\* the page with up to two files handed to handleFile
InitApp ==
    /\ vecA = NoVector /\ vecB = NoVector /\ distOut = NoCall
    /\ embInput = <<>> /\ k = 1 /\ maxIterations = 0 /\ nNeighbors = 0
    /\ runs = {} /\ km = <<>> /\ tape = <<>> /\ um = UmIdle
    /\ lc = LcIdle
    /\ \E shown \in BOOLEAN :
         app = [AppIdle EXCEPT !.uploadDisabled = shown,
                               !.disk = FileSizes, !.uploads = 2]

NextApp ==
    \/ ModeClick \/ KeyInput
    \/ Upload \/ Parse \/ Embed \/ Project \/ Cluster
    \/ Insights \/ Enhance \/ Narrate \/ Show \/ ResetClick

SpecApp == InitApp /\ [][NextApp]_vars

\* the least number of messages for which numClusters is more than the
\* least number of messages a run accepts
Crowd == (MinMessages + 1) * messagesPerCluster

\* the page with up to two files handed to handleFile, a small one and a
\* large one, the upload zone open
InitTwo ==
    /\ vecA = NoVector /\ vecB = NoVector /\ distOut = NoCall
    /\ embInput = <<>> /\ k = 1 /\ maxIterations = 0 /\ nNeighbors = 0
    /\ runs = {} /\ km = <<>> /\ tape = <<>> /\ um = UmIdle
    /\ lc = LcIdle
    /\ app = [AppIdle EXCEPT !.uploadDisabled = FALSE,
                             !.disk = {MinMessages, Crowd}, !.uploads = 2]

\* the mode stays 'basic'
NextTwo ==
    Upload \/ Parse \/ Embed \/ Project \/ Cluster \/ Insights \/ Show
    \/ ResetClick

SpecTwo == InitTwo /\ [][NextTwo]_vars

\* the page with one file, of any size up to MaxOver messages more than
\* CONFIG.maxMessages
InitRun ==
    /\ vecA = NoVector /\ vecB = NoVector /\ distOut = NoCall
    /\ embInput = <<>> /\ k = 1 /\ maxIterations = 0 /\ nNeighbors = 0
    /\ runs = {} /\ km = <<>> /\ tape = <<>> /\ um = UmIdle
    /\ lc = LcIdle
    /\ \E shown \in BOOLEAN :
         app = [AppIdle EXCEPT !.uploadDisabled = shown,
                               !.disk = 0..(maxMessages + MaxOver),
                               !.uploads = 1]

NextRun ==
    ModeClick \/ Upload \/ Parse \/ Embed \/ Project \/ Cluster \/ Insights \/ Enhance
    \/ Narrate \/ Show \/ ResetClick

SpecRun == InitRun /\ [][NextRun]_vars

\* lines 717-725: the waits of processConversations before the results are
\* shown are timers of 50 ms, which fire
SpecRunFair == SpecRun /\ WF_vars(Show)

\* one call of euclideanDistance on vectors of any two lengths
Vectors == UNION { [1..n -> { NumInt(x) : x \in (-MaxCoord)..MaxCoord }] :
                   n \in 0..MaxLen }

InitDist ==
    /\ vecA \in Vectors /\ vecB \in Vectors /\ distOut = NoCall
    /\ embInput = <<>> /\ k = 1 /\ maxIterations = 0 /\ nNeighbors = 0
    /\ runs = {} /\ km = <<>> /\ tape = <<>> /\ um = UmIdle
    /\ lc = LcIdle /\ app = AppIdle

NextDist == DistCall

SpecDist == InitDist /\ [][NextDist]_vars

\* "Fix bug, fix bug!"
TextFixBug ==
    <<"F", "i", "x", " ", "b", "u", "g", ",">> \o
    <<" ", "f", "i", "x", " ", "b", "u", "g", "!">>
\* "The constructor?"
TextConstructor ==
    <<"T", "h", "e", " ", "c", "o", "n", "s">> \o
    <<"t", "r", "u", "c", "t", "o", "r", "?">>
\* "Python 2024"
TextYear ==
    <<"P", "y", "t", "h", "o", "n", " ", "2", "0", "2", "4">>
\* "Ok, thanks"
TextThanks ==
    <<"O", "k", ",", " ", "t", "h", "a", "n", "k", "s">>
\* "debug  my PYTHON python"
TextDebug ==
    <<"d", "e", "b", "u", "g", " ", " ", "m", "y", " ">> \o
    <<"P", "Y", "T", "H", "O", "N", " ", "p", "y", "t", "h", "o", "n">>

Texts == {TextFixBug, TextConstructor, TextYear, TextThanks, TextDebug}

\* the texts handed to labelClusters
MessageLists ==
    UNION { [1..n -> { [text |-> t] : t \in Texts }] : n \in 0..MaxMsgs }

\* labelClusters called on messages and the labels kmeans gave them, twice
InitLabel ==
    /\ vecA = NoVector /\ vecB = NoVector /\ distOut = NoCall
    /\ embInput = <<>> /\ k = 1 /\ maxIterations = 0 /\ nNeighbors = 0
    /\ runs = {} /\ km = <<>> /\ tape = <<>> /\ um = UmIdle
    /\ app = AppIdle
    /\ \E messages \in MessageLists :
       \E labels \in [1..Len(messages) -> 0..(MaxN - 1)] :
         lc = [LcIdle EXCEPT !.pc = "entry", !.messages = messages,
                             !.labels = labels]

NextLabel == LcGroup \/ LcLabel \/ LcReturn \/ LcCallAgain

SpecLabel == InitLabel /\ [][NextLabel]_vars

\* one call of kmeans, which runs to its end once called (a synchronous
\* function on a single thread)
SpecLive == InitKmeans({1}) /\ [][KmNext]_vars /\ WF_vars(KmNext)

(***************************************************************************)
(* Properties.                                                             *)
(***************************************************************************)
KnnBuilt == um.pc \in {"pass", "done"} /\ um.outcome # "threw"

\* C1: for N >= 1 and a requested neighbour count >= 0, the neighbour list
\* umap builds for every sample i has exactly min(nNeighbors, N-1) entries,
\* each entry's d is the distance from i to its j, the entries are in order
\* of non-decreasing distance, and none of them is i itself.
C1_NeighborLists ==
    (KnnBuilt /\ N >= 1) =>
        \A i \in 1..N :
            LET list == um.knn[i]
            IN  /\ Len(list) = Min(nNeighbors, N - 1)
                /\ \A p \in 1..Len(list) :
                     /\ list[p].j # i - 1
                     /\ list[p].j \in 0..(N - 1)
                     /\ list[p].d = euclideanDistance(embInput[i],
                                                      embInput[list[p].j + 1])
                /\ \A p, q \in 1..Len(list) :
                     p < q => ~NumLess(list[q].d, list[p].d)

\* three samples, one neighbour asked for, and the nearest neighbour of
\* sample 0 is sample 2, not sample 1: the sort and the cut both acted
C1_Witness ==
    /\ um.pc = "done" /\ N = 3 /\ nNeighbors = 1
    /\ Len(um.knn[1]) = 1 /\ um.knn[1][1].j = 2
    /\ NumLess(um.distances[1][3], um.distances[1][2])

\* C2: a call of kmeans with N >= 1 samples and K >= 1 that returns, returns
\* one slot per sample index 0..N-1, every one of them in [0, K).
C2_AssignmentTotal ==
    \A r \in runs :
        (km[r].outcome = "returned" /\ N >= 1) =>
            /\ DOMAIN km[r].result = 1..N
            /\ \A i \in 1..N : km[r].result[i] \in 0..(k - 1)

C2_Witness ==
    /\ 1 \in runs /\ km[1].outcome = "returned" /\ N = 3 /\ k = 3
    /\ Cardinality({ km[1].result[i] : i \in 1..N }) >= 2

\* C3: when kmeans stops because an Assign pass produced the assignment of
\* the pass before (or the all-zero initial one), the Assign step run once
\* more against the centroids held at that moment gives the returned
\* assignment.
C3_FixedPoint ==
    \A r \in runs :
        (km[r].pc = "done" /\ km[r].converged) =>
            Assign(km[r]) = km[r].result

\* convergence after at least one change of the assignment
C3_Witness ==
    /\ 1 \in runs /\ km[1].pc = "done" /\ km[1].converged
    /\ km[1].passes >= 2
    /\ Cardinality({ km[1].result[i] : i \in 1..N }) >= 2

C5_Terminates ==
    /\ <>(km[1].pc = "done")
    /\ [](km[1].passes <= maxIterations)
    /\ []((km[1].outcome = "returned" /\ ~km[1].converged) =>
              km[1].passes = maxIterations)
    /\ [][(km[1].pc = "loop" /\ km'[1].passes = km[1].passes + 1) =>
              ((km'[1].pc = "done") <=> (km'[1].newLabels = km[1].labels))]_vars

\* the cap ends a run whose assignment is not yet a fixed point
C5_Witness ==
    /\ 1 \in runs /\ km[1].outcome = "returned" /\ ~km[1].converged
    /\ maxIterations >= 1 /\ km[1].passes = maxIterations
    /\ Assign(km[1]) # km[1].result

\* the slots with no member under the run's labels
EmptySlots(run) == { c \in 0..(k - 1) : ClusterPoints(run, c) = {} }

\* C6: an Update step leaves the centroid of every slot with no assigned
\* sample exactly as it was; kmeans raises no error on N >= 1 samples; and
\* the run stays within the iteration cap.
C6_EmptySlotKept ==
    /\ [][(1 \in runs /\ km[1].pc = "update" /\ km'[1].pc = "loop") =>
            \A c \in EmptySlots(km[1]) :
                /\ km'[1].centroids[c + 1] = km[1].centroids[c + 1]
                /\ km'[1].heap[km[1].centroids[c + 1]]
                     = km[1].heap[km[1].centroids[c + 1]]]_vars
    /\ []((1 \in runs /\ N >= 1) =>
            (km[1].outcome # "threw" /\ km[1].passes <= maxIterations))

\* K = N = 3, two identical vectors and one outlier: an Update step has run
\* with a slot empty, and the run has returned
C6_Witness ==
    /\ 1 \in runs /\ N = 3 /\ k = 3
    /\ embInput[1] = embInput[2] /\ embInput[3] # embInput[1]
    /\ km[1].outcome = "returned" /\ km[1].iter >= 1
    /\ EmptySlots(km[1]) # {}

\* C7: a call of kmeans with K > N ends with an error and returns nothing.
C7_KAboveNFails ==
    \A r \in runs :
        (k > N /\ km[r].pc = "done") => km[r].outcome = "threw"

\* C8: euclideanDistance on two vectors of different lengths ends with an
\* error and returns no value.
C8_LengthMismatchFails ==
    (distOut.state # "none" /\ Len(vecA) # Len(vecB)) =>
        distOut.state = "threw"

IsZero(x) == x.kind = "num" /\ x.n = 0

C10_EmbeddingsUntouched ==
    /\ \A r \in runs : SubSeq(km[r].heap, 1, N) = embInput
    /\ um.pc # "idle" => SubSeq(um.heap, 1, N) = embInput

\* an Update step has written a mean into a centroid array: the centroid is
\* no longer equal to any sample
C10_Witness ==
    /\ 1 \in runs /\ km[1].outcome = "returned"
    /\ \E c \in 1..Len(km[1].centroids) :
         \A i \in 1..N : km[1].heap[km[1].centroids[c]] # embInput[i]

(***************************************************************************)
(* labelClusters: what its claims speak of, stated from the texts.          *)
(***************************************************************************)
\* the texts of cluster c, in message order
TextsOf(c) ==
    LET members == SelectSeq([i \in 1..Len(lc.messages) |-> i],
                             LAMBDA i : lc.labels[i] = c)
    IN  [m \in 1..Len(members) |-> lc.messages[members[m]].text]

IsAlnum(ch) == CharToLower(ch) \in Range(LowerCase) \cup Range(Digits)

\* the alphanumeric tokens of a text: its maximal runs of letters and digits,
\* as <<first, last>> positions
RunsOf(text) ==
    { r \in (1..Len(text)) \X (1..Len(text)) :
        /\ r[1] <= r[2]
        /\ \A i \in r[1]..r[2] : IsAlnum(text[i])
        /\ r[1] = 1 \/ ~IsAlnum(text[r[1] - 1])
        /\ r[2] = Len(text) \/ ~IsAlnum(text[r[2] + 1]) }

\* the token of a run, lower-cased
TokenAt(text, r) == [i \in 1..(r[2] - r[1] + 1) |-> CharToLower(text[r[1] + i - 1])]

\* the kept tokens of cluster c where they occur: <<text number, first
\* position, token>>, for the tokens of length > 2 that are not stopwords
KeptOccurrences(c) ==
    UNION { { <<m, r[1], TokenAt(TextsOf(c)[m], r)>> :
                r \in { q \in RunsOf(TextsOf(c)[m]) :
                          /\ q[2] - q[1] + 1 > 2
                          /\ TokenAt(TextsOf(c)[m], q) \notin stopwords } } :
            m \in 1..Len(TextsOf(c)) }

KeptTokens(occurrences) == { o[3] : o \in occurrences }

Frequency(occurrences, w) == Cardinality({ o \in occurrences : o[3] = w })

\* token v occurs before token w does
FirstBefore(occurrences, v, w) ==
    \E o \in { x \in occurrences : x[3] = v } :
        \A p \in { x \in occurrences : x[3] = w } :
            o[1] < p[1] \/ (o[1] = p[1] /\ o[2] < p[2])

IsPrefix(p, s) == Len(p) <= Len(s) /\ SubSeq(s, 1, Len(p)) = p

\* the label of cluster c follows the rule for the kept tokens
LabelRule(c, label, occurrences) ==
    LET kept == KeptTokens(occurrences)
    IN  /\ Cardinality(kept) >= 2 =>
              \E t1, t2 \in kept :
                  /\ t1 # t2
                  /\ label = TitleCase(t1) \o <<" ", "&", " ">> \o TitleCase(t2)
                  /\ Frequency(occurrences, t1) >= Frequency(occurrences, t2)
                  /\ \A t \in kept \ {t1, t2} :
                        Frequency(occurrences, t) <= Frequency(occurrences, t2)
        /\ Cardinality(kept) = 1 =>
              \E t \in kept : IsPrefix(TitleCase(t), label)
        /\ Cardinality(kept) = 0 =>
              \/ label = <<"T", "o", "p", "i", "c", " ">> \o DecimalOf(c + 1)
              \/ label = <<"C", "l", "u", "s", "t", "e", "r", " ">>
                            \o DecimalOf(c + 1)

\* C11: for every cluster that has a message, the label is the two
\* highest-frequency kept tokens, title-cased and joined by " & ", when two
\* or more distinct tokens are kept; the kept token title-cased (a suffix
\* allowed) when one is; "Topic <slot+1>" or "Cluster <slot+1>" when none is.
\* The kept tokens are the lower-cased alphanumeric tokens of length > 2
\* that are not stopwords.
C11_LabelRule ==
    Len(lc.results) >= 1 =>
        /\ DOMAIN lc.results[1] = { lc.labels[i] : i \in 1..Len(lc.labels) }
        /\ \A c \in DOMAIN lc.results[1] :
              \A occurrences \in {KeptOccurrences(c)} :
                  LabelRule(c, lc.results[1][c], occurrences)

\* the ranking lists tokens of equal frequency in the order of their first
\* occurrence
TiesInOrder(sorted, occurrences) ==
    \A p, q \in 1..Len(sorted) :
        (p < q /\ Frequency(occurrences, sorted[p]) = Frequency(occurrences, sorted[q]))
            => FirstBefore(occurrences, sorted[p], sorted[q])

\* C12: in the ranking of a cluster's kept tokens, of two tokens with the
\* same frequency the one that occurs first in the cluster's texts comes
\* first, tokens made of digits included.
C12_TiesByFirstOccurrence ==
    \A c \in DOMAIN lc.sorted :
        \A occurrences \in {KeptOccurrences(c)} :
            TiesInOrder(lc.sorted[c], occurrences)

C14_EmptyInputReturnsEmpty ==
    (um.pc = "done" /\ N = 0) => (um.outcome = "returned" /\ um.result = <<>>)

\* C15: every coordinate of every position umap returns is a finite number
\* (not NaN, not infinite), and in every pass every divisor of an attraction
\* or repulsion term is strictly positive.
C15_PositionsFinite ==
    /\ um.divisors \in {"none", "positive"}
    /\ (um.pc = "done" /\ um.outcome = "returned") =>
          \A i \in 1..Len(um.result) :
              \A c \in 1..nComponents :
                  IsFiniteClass(ClassOf(um.heap[um.result[i]][c]))

C15_Witness ==
    /\ um.pc = "done" /\ um.outcome = "returned"
    /\ um.iter = iterations
    /\ Len(um.result) >= 2
    /\ \E i \in 1..N : um.knn[i] # <<>>
    /\ um.divisors = "positive"

\* C16: with six embeddings in two groups of three identical points and
\* k = 2, whatever the seeding draws, a finished call of kmeans returns
\* labels with two clusters of three samples each, the samples of a group
\* sharing a slot and the two groups in different slots.
C16_TwoGroupsOfThree ==
    (runs = {1} /\ km[1].pc = "done") =>
        /\ km[1].outcome = "returned"
        /\ Len(km[1].result) = 6
        /\ \A c \in 0..1 :
              Cardinality({ i \in 1..6 : km[1].result[i] = c }) = 3
        /\ \A i, j \in 1..6 :
              (km[1].result[i] = km[1].result[j]) <=> (embInput[i] = embInput[j])

\* the distances from an embedding to the k centroids, slot 0 first
CentroidDistances(run, emb) ==
    Built([c \in 1..k |-> euclideanDistance(emb, run.heap[run.centroids[c]])])

\* C20: after an Assign pass, no centroid is strictly nearer to a sample
\* than the centroid of its slot, and the centroid of every lower slot is
\* strictly farther: a sample equally distant from several nearest
\* centroids has the lowest of their slots.
C20_TiesToLowestSlot ==
    (/\ runs = {1}
     /\ km[1].pc = "update" \/ (km[1].pc = "done" /\ km[1].converged)) =>
        \A i \in 1..N :
            \E d \in {CentroidDistances(km[1], km[1].heap[i])} :
            \E slot \in {km[1].newLabels[i] + 1} :
                /\ \A c \in 1..k : ~NumLess(d[c], d[slot])
                /\ \A c \in 1..(slot - 1) : NumLess(d[slot], d[c])

\* an Assign pass has given a sample the lower of two equally near slots,
\* slot 0 being farther
C20_Witness ==
    /\ runs = {1}
    /\ km[1].pc = "update"
    /\ \E i \in 1..N :
         /\ Cardinality(NearestSlots(km[1], km[1].heap[i])) >= 2
         /\ 0 \notin NearestSlots(km[1], km[1].heap[i])
         /\ km[1].newLabels[i] = 1

\* C17: in API mode the upload step is unlocked only while the key and the
\* provider now in CONFIG are ones validateApiKey has succeeded for,
\* whatever the user did while a validation request was in flight.
C17_UnlockedOnlyIfValidated ==
    (app.CONFIG.analysisMode = "api" /\ ~app.uploadDisabled) =>
        <<app.CONFIG.apiKey, app.CONFIG.apiProvider>> \in app.accepted

\* C18: callOpenAI and callAnthropic are called only while the mode is
\* 'api', and no AI function (generateWithAPI, generateWithWebLLM or what
\* they call) is called while the mode is 'basic'.
C18_ApiCallsOnlyInApiMode ==
    \A call \in app.calls :
        /\ call.fn \in {"callOpenAI", "callAnthropic"} => call.mode = "api"
        /\ call.mode # "basic"

\* C19: the points drawn on the results screen have their texts, their
\* coordinates and their cluster slots from one and the same batch.
C19_PointsOfOneBatch ==
    app.rendered # NoPoints =>
        /\ app.rendered.coords = app.rendered.text
        /\ app.rendered.cluster = app.rendered.text

\* C21: with k <= N, every turn of the seeding loop that adds a centroid
\* adds the embedding of a sample not chosen before, and that sample is at
\* distance 0 from the centroids chosen so far only if no sample of
\* positive weight remains; so the k seeds are k distinct samples.
C21_SeedsAreNewSamples ==
    [][(/\ runs = {1}
        /\ k <= N
        /\ km[1].pc = "seed"
        /\ Len(km'[1].centroids) = Len(km[1].centroids) + 1) =>
          \E i \in 0..(N - 1) :
            \E distances \in {SeedDistances(km[1])} :
              /\ i \notin km[1].usedIndices
              /\ km'[1].usedIndices = km[1].usedIndices \cup {i}
              /\ \/ NumLess(NumInt(0), distances[i + 1])
                 \/ \A j \in 1..N : ~NumLess(NumInt(0), distances[j])]_vars

\* C22: with a single sample, the neighbour list is empty, no pass evaluates
\* a division or gives the sample a force other than 0, and umap returns
\* the sample's position array with the position it was given at the start.
C22_SingleSampleUntouched ==
    (N = 1 /\ um.pc \in {"pass", "done"}) =>
        /\ um.knn = << <<>> >>
        /\ um.divisors = "none"
        /\ um.displaced = {}
        /\ um.pc = "done" =>
             (um.outcome = "returned" /\ um.result = um.positions)

\* umap has returned for a single sample after all its passes
C22_Witness ==
    /\ N = 1
    /\ um.pc = "done"
    /\ um.outcome = "returned"
    /\ um.iter = iterations
    /\ Len(um.result) = 1

\* C23: for N >= 1 the pass loop is driven by the pass counter alone: from
\* a state of the loop with fewer than 200 passes made the next step is a
\* pass, whatever the positions and the forces are; with 200 made the next
\* step returns; so a finished call has returned after exactly 200 passes.
C23_AllPassesThenReturn ==
    /\ [](um.pc = "done" /\ N >= 1 =>
            um.outcome = "returned" /\ um.iter = iterations)
    /\ [](um.iter <= iterations)
    /\ [][/\ (um.pc = "knn" /\ N >= 1) =>
               (um'.pc = "pass" /\ um'.iter = 0)
          /\ (um.pc = "pass" /\ um.iter < iterations) =>
               (um'.pc = "pass" /\ um'.iter = um.iter + 1)
          /\ (um.pc = "pass" /\ um.iter = iterations) =>
               (um'.pc = "done" /\ um'.outcome = "returned"
                  /\ um'.iter = iterations)]_vars

\* umap has returned after its passes for samples that had forces on them
C23_Witness ==
    /\ um.pc = "done"
    /\ um.outcome = "returned"
    /\ um.iter = iterations
    /\ N >= 2
    /\ um.displaced # {}

\* C24: every position a force term of a pass reads is as it was at the
\* start of the pass (written by each of the passes before and by no
\* other), and the pass writes each position once, after the forces.
C24_ReadThenApply ==
    (um.pc \in {"pass", "done"} /\ um.iter >= 1) =>
        /\ um.read \subseteq {um.iter - 1}
        /\ \A i \in 1..N : um.written[i] = um.iter

\* a pass after the first has read positions for its force terms
C24_Witness ==
    /\ um.pc = "pass"
    /\ um.iter >= 2
    /\ N >= 2
    /\ um.read = {um.iter - 1}

(***************************************************************************)
(* C26: when more than CONFIG.maxMessages messages are parsed, the         *)
(* messages parseExport returns are at most maxMessages, equally spaced in *)
(* the timestamp order, and the last of them is within one step of the     *)
(* latest parsed message.                                                  *)
(***************************************************************************)
C26_SampledToTheEnd ==
    \A r \in Runs :
        (app.files[r] > maxMessages /\ ~At_(r, "none") /\ ~At_(r, "reading"))
        => LET kept == app.batch[r]
               step == kept[2] - kept[1]
           IN  /\ Len(kept) <= maxMessages
               /\ \A i \in 1..(Len(kept) - 1) : kept[i + 1] - kept[i] = step
               /\ (app.files[r] - 1) - kept[Len(kept)] <= step

(***************************************************************************)
(* C25: every call of kmeans the pipeline makes for N parsed messages asks *)
(* for max(4, min(15, floor(N / 15))) clusters, the number the technical   *)
(* documentation gives.                                                    *)
(***************************************************************************)
C25_DocumentedClusterCount ==
    \A call \in app.kmeansCalls :
        call.K = MathMax(4, Min(15, call.N \div 15))

(***************************************************************************)
(* C27: when parseExport yields fewer than 5 messages, the step of         *)
(* processConversations that parses them ends the run on the upload        *)
(* screen and leaves state.embeddings, state.coords2d, state.clusters and  *)
(* state.points as they were; no embeddings are generated, kmeans is not   *)
(* called and the results screen is never shown for that file.             *)
(***************************************************************************)
C27_TooFewMessagesRejected ==
    /\ [][\A r \in Runs :
            (At_(r, "reading") /\ app'.run[r].pc # "reading"
                /\ Len(app'.batch[r]) < 5)
            => /\ app'.run[r].pc = "done"
               /\ app'.screen = "upload-screen"
               /\ app'.state.embeddings = app.state.embeddings
               /\ app'.state.coords2d = app.state.coords2d
               /\ app'.state.clusters = app.state.clusters
               /\ app'.state.points = app.state.points
               /\ app'.kmeansCalls = app.kmeansCalls]_vars
    /\ [](\A r \in Runs :
            (~At_(r, "none") /\ ~At_(r, "reading") /\ Len(app.batch[r]) < 5)
            => /\ At_(r, "done")
               /\ app.state.embeddings # r
               /\ app.uploads = 1 => /\ app.screen # "results-screen"
                                     /\ app.kmeansCalls = {}
                                     /\ app.state.points = NoPoints)

C27_Witness ==
    /\ At_(1, "done")
    /\ app.files[1] = 4 /\ Len(app.batch[1]) = 4
    /\ app.screen = "upload-screen"

(***************************************************************************)
(* C28: a failure of the AI enhancement does not fail the run.  When the   *)
(* call for the overall analysis throws, generateEnhancedInsights returns  *)
(* the basic insights with fallbackToBasic set, a fallbackReason and no    *)
(* aiAnalysis, the screen is not changed, and the run then shows the       *)
(* results screen; when the call for one cluster's narrative throws, the   *)
(* narratives, the flag, the reason and the analysis stay as they were and *)
(* the loop over the clusters goes on.                                     *)
(***************************************************************************)
C28_EnhancementFailureFallsBack ==
    /\ [][\A r \in Runs :
            /\ (At_(r, "ai") /\ ~At_(r, "ai")'
                    /\ ~app'.run[r].insights.aiAnalysis)
               => /\ app'.run[r].pc = "wait-render"
                  /\ app'.run[r].insights.fallbackToBasic
                  /\ app'.run[r].insights.fallbackReason # ""
                  /\ app'.state.insights = app'.run[r].insights
                  /\ app'.screen = app.screen
            /\ (At_(r, "narrative") /\ app' # app
                    /\ app'.run[r].insights.aiNarratives
                           = app.run[r].insights.aiNarratives)
               => /\ app'.run[r].insights = app.run[r].insights
                  /\ ~app'.run[r].insights.fallbackToBasic
                  /\ app'.run[r].pc \in {"narrative", "wait-render"}
                  /\ app'.screen = app.screen
            /\ (At_(r, "wait-render") /\ ~At_(r, "wait-render")')
               => /\ app'.screen = "results-screen"
                  /\ app'.run[r].pc = "done"]_vars
    /\ \A r \in Runs :
         (At_(r, "wait-render") /\ app.run[r].insights.fallbackToBasic)
         ~> (At_(r, "done") /\ app.screen = "results-screen")

C28_Witness ==
    /\ At_(1, "done")
    /\ app.screen = "results-screen"
    /\ app.run[1].insights.fallbackToBasic
    /\ app.run[1].insights.fallbackReason = "API key error"
    /\ ~app.run[1].insights.aiAnalysis

(***************************************************************************)
(* C29: every call of kmeans the pipeline makes has 1 <= K <= N, with K    *)
(* between CONFIG.minClusters and CONFIG.maxClusters and N the number of   *)
(* embedded messages handed to it.                                         *)
(***************************************************************************)
C29_ClustersWithinSamples ==
    \A call \in app.kmeansCalls :
        /\ 1 <= call.K /\ call.K <= call.N
        /\ minClusters <= call.K /\ call.K <= maxClusters

RECURSIVE CountsFrom(_, _)
CountsFrom(clusters, p) ==
    IF p > Len(clusters) THEN 0
    ELSE clusters[p].count + CountsFrom(clusters, p + 1)

(***************************************************************************)
(* C30: once a run has built state.points, state.clusters has one entry    *)
(* for each slot that holds a sample and no other: every entry has the     *)
(* number of a slot as its id and a count of 1 or more, the counts add up  *)
(* to the number of points, and there are at most as many entries as       *)
(* slots.                                                                  *)
(***************************************************************************)
C30_ClustersCoverNonEmptySlots ==
    app.state.points # NoPoints
    => LET clusters == app.state.clusters
           nPoints == Count(app, app.state.points.text)
       IN  /\ \A p \in 1..Len(clusters) :
                /\ clusters[p].count >= 1
                /\ clusters[p].id # NaN
           /\ CountsFrom(clusters, 1) = nPoints
           /\ Len(clusters) <= numClusters(nPoints)

====
